---- MODULE Spec2Model ----
(***************************************************************************)
(* Model of the JSON path extractor of CommsIO/commlinkio/core              *)
(* (json_extractor.py): the tokenizer (_parse_bracket, _parse_query), the   *)
(* resolver (_resolve_token, extract_json_path) and the batch API           *)
(* (extract_json_paths); of the command line tool built on it               *)
(* (tools/json_extract.py); of the standalone extractor                     *)
(* (tools/json_information_extractor.py); and of the conversation history   *)
(* of RAGAgent (Agent-rag_retrieval/agent/rag_agent.py).                    *)
(*                                                                         *)
(* A Python str is a sequence of characters; a character is a one-element   *)
(* TLA+ string.  Python positions are 0-based: At(s, i) is s[i].            *)
(* A call either returns a value or raises; both are an outcome record      *)
(* [exc, msg, ret] with exc = "none" for a normal return.                   *)
(*                                                                         *)
(* data is the JSON document, call the last call made, result its outcome,  *)
(* scan the position of an evaluation taken step by step, history the       *)
(* history of the agent.  environ is os.environ, files the file system,     *)
(* memory the Memory object, poll the position of a running trigger,        *)
(* upload the position of a running upload and requests the HTTP requests   *)
(* sent so far.                                                             *)
(***************************************************************************)
EXTENDS Integers, Sequences, FiniteSets, TLC

VARIABLES data, call, result, scan, history, environ, files, memory, poll, requests,
          upload

vars == <<data, call, result, scan, history, environ, files, memory, poll, requests,
          upload>>

\* what the extractor and the agent never touch
outside == <<environ, files, memory, poll, requests, upload>>

---------------------------------------------------------------------------
(* Characters *)

BSLASH == "\\"

SQUOTE == "'"

DQUOTE == "\""

SPACE == " "

\* U+00B2 SUPERSCRIPT TWO: str.isdigit() is True, int() rejects it.
SUP2 == "sup2"

DecimalDigits == <<"0", "1", "2", "3", "4", "5", "6", "7", "8", "9">>

DecimalChars == {DecimalDigits[k] : k \in 1..10}

\* str.isdigit(): the decimal digits and the other characters of Unicode
\* category "digit" (SUP2 stands for them).
IsDigit(c) == c \in DecimalChars \cup {SUP2}

\* the characters str.strip() removes
Whitespace == {SPACE}

---------------------------------------------------------------------------
(* Outcomes of a call *)

Return(v) == [exc |-> "none", msg |-> "", ret |-> v]

Raise(e, m) == [exc |-> e, msg |-> m, ret |-> <<>>]

JsonPathError(m) == Raise("JsonPathError", m)

Raised(o) == o.exc # "none"

---------------------------------------------------------------------------
(* Python str operations *)

At(s, i) == s[i + 1]

\* s[i:j] for 0 <= i <= j <= len(s)
Slice(s, i, j) == SubSeq(s, i + 1, j)

RECURSIVE LStrip(_)
LStrip(s) ==
    IF s # <<>> /\ Head(s) \in Whitespace THEN LStrip(Tail(s)) ELSE s

RECURSIVE RStrip(_)
RStrip(s) ==
    IF s # <<>> /\ s[Len(s)] \in Whitespace
    THEN RStrip(SubSeq(s, 1, Len(s) - 1))
    ELSE s

\* Strip removing leading whitespace only
StripLeading(s) == LStrip(s)

\* str.strip()
Strip(s) == RStrip(LStrip(s))

StartsWith(s, c) == s # <<>> /\ Head(s) = c

DigitValue(c) == (CHOOSE k \in 1..10 : DecimalDigits[k] = c) - 1

RECURSIVE DecimalValue(_)
DecimalValue(s) ==
    IF s = <<>> THEN 0
    ELSE 10 * DecimalValue(SubSeq(s, 1, Len(s) - 1)) + DigitValue(s[Len(s)])

\* int(s) for s = ["-"] digit-characters: base-10 value, or ValueError when a
\* character is not a decimal digit.
PyInt(s) ==
    LET neg == StartsWith(s, "-")
        body == IF neg THEN Tail(s) ELSE s
    IN  IF body = <<>> \/ \E k \in 1..Len(body) : body[k] \notin DecimalChars
        THEN Raise("ValueError", "invalid literal for int() with base 10")
        ELSE Return(IF neg THEN 0 - DecimalValue(body) ELSE DecimalValue(body))

---------------------------------------------------------------------------
(* Tokens *)

FieldToken(name) == [kind |-> "field", value |-> name]

IndexToken(n) == [kind |-> "index", value |-> n]

WildcardToken == [kind |-> "wildcard"]

\* what _parse_bracket hands back: the token and the position after "]"
Bracket(token, next) == Return([token |-> token, next |-> next])

---------------------------------------------------------------------------
(* Tokenizer *)

\* QuotedKeyLoop taking a backslash as an ordinary character
RECURSIVE QuotedKeyLoopNoEscape(_, _, _, _)
QuotedKeyLoopNoEscape(query, i, quote, chars) ==
    IF i >= Len(query)
    THEN JsonPathError("Unterminated quoted bracket key.")
    ELSE LET char == At(query, i) IN
         IF char = quote
         THEN IF i + 1 >= Len(query) \/ At(query, i + 1) # "]"
              THEN JsonPathError("Quoted bracket key must end with ].")
              ELSE Bracket(FieldToken(chars), i + 2)
         ELSE QuotedKeyLoopNoEscape(query, i + 1, quote, Append(chars, char))

\* the while loop of the quoted-key branch, from position i with chars read
RECURSIVE QuotedKeyLoop(_, _, _, _)
QuotedKeyLoop(query, i, quote, chars) ==
    IF i >= Len(query)
    THEN JsonPathError("Unterminated quoted bracket key.")
    ELSE LET char == At(query, i) IN
         IF char = BSLASH
         THEN IF i + 1 >= Len(query)
              THEN JsonPathError("Invalid escape in bracket key.")
              ELSE QuotedKeyLoop(query, i + 2, quote, Append(chars, At(query, i + 1)))
         ELSE IF char = quote
         THEN IF i + 1 >= Len(query) \/ At(query, i + 1) # "]"
              THEN JsonPathError("Quoted bracket key must end with ].")
              ELSE Bracket(FieldToken(chars), i + 2)
         ELSE QuotedKeyLoop(query, i + 1, quote, Append(chars, char))

\* while j < len(query) and query[j].isdigit(): j += 1
RECURSIVE DigitsEnd(_, _)
DigitsEnd(query, j) ==
    IF j < Len(query) /\ IsDigit(At(query, j)) THEN DigitsEnd(query, j + 1) ELSE j

ParseIndexBracket(query, i) ==
    LET j0 == IF At(query, i) = "-" THEN i + 1 ELSE i IN
    IF j0 >= Len(query) \/ ~IsDigit(At(query, j0))
    THEN JsonPathError("Bracket expression must be an index, wildcard, or quoted key.")
    ELSE LET j == DigitsEnd(query, j0) IN
         IF j >= Len(query) \/ At(query, j) # "]"
         THEN JsonPathError("Array index bracket must end with ].")
         ELSE LET n == PyInt(Slice(query, i, j)) IN
              IF Raised(n) THEN n ELSE Bracket(IndexToken(n.ret), j + 1)

ParseBracket(query, start) ==
    LET i == start + 1 IN
    IF i >= Len(query)
    THEN JsonPathError("Unterminated bracket expression.")
    ELSE IF At(query, i) = "*"
    THEN IF i + 1 >= Len(query) \/ At(query, i + 1) # "]"
         THEN JsonPathError("Wildcard bracket must be [*].")
         ELSE Bracket(WildcardToken, i + 2)
    ELSE IF At(query, i) \in {SQUOTE, DQUOTE}
    THEN QuotedKeyLoop(query, i + 1, At(query, i), <<>>)
    ELSE ParseIndexBracket(query, i)

\* while i < len(raw) and raw[i] not in ".[": i += 1
RECURSIVE FieldEnd(_, _)
FieldEnd(raw, i) ==
    IF i < Len(raw) /\ At(raw, i) \notin {".", "["} THEN FieldEnd(raw, i + 1) ELSE i

\* ParseStep reading a bare "*" as a field name
ParseStepStarIsField(raw, i, tokens) ==
    LET char == At(raw, i) IN
    IF char = "."
    THEN IF i = 0 \/ i + 1 >= Len(raw) \/ At(raw, i + 1) = "."
         THEN JsonPathError("Invalid '.' placement in query.")
         ELSE Return([i |-> i + 1, tokens |-> tokens])
    ELSE IF char = "["
    THEN LET b == ParseBracket(raw, i) IN
         IF Raised(b) THEN b
         ELSE Return([i |-> b.ret.next, tokens |-> Append(tokens, b.ret.token)])
    ELSE LET end == FieldEnd(raw, i)
             name == Slice(raw, i, end)
         IN  IF name = <<>>
             THEN JsonPathError("Invalid field token in query.")
             ELSE Return([i |-> end, tokens |-> Append(tokens, FieldToken(name))])

\* one iteration of the main loop of _parse_query at position i < len(raw):
\* the new position and token list, or the exception raised
ParseStep(raw, i, tokens) ==
    LET char == At(raw, i) IN
    IF char = "."
    THEN IF i = 0 \/ i + 1 >= Len(raw) \/ At(raw, i + 1) = "."
         THEN JsonPathError("Invalid '.' placement in query.")
         ELSE Return([i |-> i + 1, tokens |-> tokens])
    ELSE IF char = "["
    THEN LET b == ParseBracket(raw, i) IN
         IF Raised(b) THEN b
         ELSE Return([i |-> b.ret.next, tokens |-> Append(tokens, b.ret.token)])
    ELSE IF char = "*"
    THEN Return([i |-> i + 1, tokens |-> Append(tokens, WildcardToken)])
    ELSE LET end == FieldEnd(raw, i)
             name == Slice(raw, i, end)
         IN  IF name = <<>>
             THEN JsonPathError("Invalid field token in query.")
             ELSE Return([i |-> end, tokens |-> Append(tokens, FieldToken(name))])

RECURSIVE ParseLoop(_, _, _)
ParseLoop(raw, i, tokens) ==
    IF i < Len(raw)
    THEN LET s == ParseStep(raw, i, tokens) IN
         IF Raised(s) THEN s ELSE ParseLoop(raw, s.ret.i, s.ret.tokens)
    ELSE Return(tokens)

\* StripRoot removing "$" only
StripRootDollarOnly(raw) == IF StartsWith(raw, "$") THEN Tail(raw) ELSE raw

\* the optional root marker: "$", then "." if it follows
StripRoot(raw) ==
    IF StartsWith(raw, "$")
    THEN IF StartsWith(Tail(raw), ".") THEN Tail(Tail(raw)) ELSE Tail(raw)
    ELSE raw

\* ParseQuery testing for the empty query after the root marker is removed
ParseQueryRootIsEmpty(query) ==
    LET raw == StripRoot(Strip(query)) IN
    IF raw = <<>>
    THEN JsonPathError("Query cannot be empty.")
    ELSE ParseLoop(raw, 0, <<>>)

ParseQuery(query) ==
    LET stripped == Strip(query) IN
    IF stripped = <<>>
    THEN JsonPathError("Query cannot be empty.")
    ELSE LET raw == StripRoot(stripped) IN
         IF raw = <<>> THEN Return(<<>>) ELSE ParseLoop(raw, 0, <<>>)

---------------------------------------------------------------------------
(* JSON documents as Python values *)

PyNone == [kind |-> "none"]

PyNum(n) == [kind |-> "int", ival |-> n]

PyStr(s) == [kind |-> "str", sval |-> s]

\* a list: its elements in order
PyList(elems) == [kind |-> "list", elems |-> elems]

\* a dict: its items in insertion order, keys distinct
PyDict(items) == [kind |-> "dict", items |-> items]

Item(k, v) == [key |-> k, value |-> v]

IsDict(node) == node.kind = "dict"

IsList(node) == node.kind = "list"

\* key in d
DictHas(d, k) == \E n \in 1..Len(d.items) : d.items[n].key = k

\* d[key]
DictGetItem(d, k) ==
    IF DictHas(d, k)
    THEN Return(d.items[CHOOSE n \in 1..Len(d.items) : d.items[n].key = k].value)
    ELSE Raise("KeyError", "key")

\* list(d.values())
DictValues(d) == [n \in 1..Len(d.items) |-> d.items[n].value]

\* DictSetItem adding an item on every assignment
DictSetItemAppend(d, k, v) == PyDict(Append(d.items, Item(k, v)))

\* d[key] = value: replaces the value of a present key in place, appends a new key
DictSetItem(d, k, v) ==
    IF DictHas(d, k)
    THEN PyDict([n \in 1..Len(d.items) |->
                    IF d.items[n].key = k THEN Item(k, v) ELSE d.items[n]])
    ELSE PyDict(Append(d.items, Item(k, v)))

\* l[index]: negative positions count from the end; IndexError out of range
ListGetItem(l, index) ==
    LET n == Len(l.elems) IN
    IF 0 <= index /\ index < n THEN Return(l.elems[index + 1])
    ELSE IF 0 - n <= index /\ index < 0 THEN Return(l.elems[n + index + 1])
    ELSE Raise("IndexError", "list index out of range")

---------------------------------------------------------------------------
(* Resolver *)

ResolveField(node, token) ==
    IF IsDict(node) /\ DictHas(node, token.value)
    THEN LET v == DictGetItem(node, token.value) IN
         IF Raised(v) THEN v ELSE Return(<<v.ret>>)
    ELSE Return(<<>>)

\* ResolveIndex taking the index as a 1-based position
ResolveIndexOneBased(node, token) ==
    IF ~IsList(node) THEN Return(<<>>)
    ELSE LET index == IF token.value < 0
                      THEN token.value + Len(node.elems)
                      ELSE token.value
         IN  IF 0 < index /\ index <= Len(node.elems)
             THEN Return(<<node.elems[index]>>)
             ELSE Return(<<>>)

\* ResolveIndex without the bounds check
ResolveIndexUnchecked(node, token) ==
    IF ~IsList(node) THEN Return(<<>>)
    ELSE LET index == IF token.value < 0
                      THEN token.value + Len(node.elems)
                      ELSE token.value
             v == ListGetItem(node, index)
         IN  IF Raised(v) THEN v ELSE Return(<<v.ret>>)

\* ResolveIndex without the normalisation of a negative index
ResolveIndexNoNegative(node, token) ==
    IF ~IsList(node) THEN Return(<<>>)
    ELSE IF 0 <= token.value /\ token.value < Len(node.elems)
    THEN Return(<<node.elems[token.value + 1]>>)
    ELSE Return(<<>>)

ResolveIndex(node, token) ==
    IF ~IsList(node) THEN Return(<<>>)
    ELSE LET index == IF token.value < 0
                      THEN token.value + Len(node.elems)
                      ELSE token.value
         IN  IF 0 <= index /\ index < Len(node.elems)
             THEN LET v == ListGetItem(node, index) IN
                  IF Raised(v) THEN v ELSE Return(<<v.ret>>)
             ELSE Return(<<>>)

\* ResolveWildcard without the list branch
ResolveWildcardDictOnly(node) ==
    IF IsDict(node) THEN Return(DictValues(node)) ELSE Return(<<>>)

ResolveWildcard(node) ==
    IF IsDict(node) THEN Return(DictValues(node))
    ELSE IF IsList(node) THEN Return(node.elems)
    ELSE Return(<<>>)

ResolveToken(node, token) ==
    IF token.kind = "field" THEN ResolveField(node, token)
    ELSE IF token.kind = "index" THEN ResolveIndex(node, token)
    ELSE IF token.kind = "wildcard" THEN ResolveWildcard(node)
    ELSE Return(<<>>)

\* ExtendLoop leaving out the values the frontier already holds
RECURSIVE ExtendLoopNoDuplicates(_, _, _, _)
ExtendLoopNoDuplicates(nodes, n, token, next_nodes) ==
    IF n > Len(nodes) THEN Return(next_nodes)
    ELSE LET r == ResolveToken(nodes[n], token) IN
         IF Raised(r) THEN r
         ELSE ExtendLoopNoDuplicates(nodes, n + 1, token,
                  next_nodes \o SelectSeq(r.ret,
                                    LAMBDA v : \A m \in 1..Len(next_nodes) : next_nodes[m] # v))

\* for node in nodes: next_nodes.extend(_resolve_token(node, token)),
\* from the n-th node with next_nodes as built so far
RECURSIVE ExtendLoop(_, _, _, _)
ExtendLoop(nodes, n, token, next_nodes) ==
    IF n > Len(nodes) THEN Return(next_nodes)
    ELSE LET r == ResolveToken(nodes[n], token) IN
         IF Raised(r) THEN r
         ELSE ExtendLoop(nodes, n + 1, token, next_nodes \o r.ret)

\* for token in tokens: ..., from the k-th token with the frontier nodes
RECURSIVE ResolveLoop(_, _, _)
ResolveLoop(tokens, k, nodes) ==
    IF k > Len(tokens) THEN Return(nodes)
    ELSE LET r == ExtendLoop(nodes, 1, tokens[k], <<>>) IN
         IF Raised(r) THEN r
         ELSE IF r.ret = <<>> THEN Return(r.ret)
         ELSE ResolveLoop(tokens, k + 1, r.ret)

\* ExtractJsonPath finding nothing when the query has no token
ExtractJsonPathNoTokenNoMatch(d, query) ==
    LET tokens == ParseQuery(query) IN
    IF Raised(tokens) THEN tokens
    ELSE IF tokens.ret = <<>> THEN Return(<<>>)
    ELSE ResolveLoop(tokens.ret, 1, <<d>>)

ExtractJsonPath(d, query) ==
    LET tokens == ParseQuery(query) IN
    IF Raised(tokens) THEN tokens ELSE ResolveLoop(tokens.ret, 1, <<d>>)

---------------------------------------------------------------------------
(* Batch API *)

\* FirstOrAll as "matches[0] if first else matches"
FirstOrAllNoAbsent(matches, first) ==
    IF first THEN ListGetItem(PyList(matches), 0) ELSE Return(PyList(matches))

\* output[query] = matches[0] if first and matches else (None if first else matches)
FirstOrAll(matches, first) ==
    IF first /\ matches # <<>>
    THEN LET v == ListGetItem(PyList(matches), 0) IN v
    ELSE IF first THEN Return(PyNone) ELSE Return(PyList(matches))

\* for query in queries: ..., from the n-th query with output as built so far
RECURSIVE PathsLoop(_, _, _, _, _)
PathsLoop(d, queries, first, n, output) ==
    IF n > Len(queries) THEN Return(output)
    ELSE LET matches == ExtractJsonPath(d, queries[n]) IN
         IF Raised(matches) THEN matches
         ELSE LET v == FirstOrAll(matches.ret, first) IN
              IF Raised(v) THEN v
              ELSE PathsLoop(d, queries, first, n + 1,
                             DictSetItem(output, queries[n], v.ret))

ExtractJsonPaths(d, queries, first) ==
    PathsLoop(d, queries, first, 1, PyDict(<<>>))

---------------------------------------------------------------------------
(* The caller: a document and one call of one of the three entry points.
   The functions keep no state between calls, so a behaviour is one call. *)

NoCall == [op |-> "none", query |-> <<>>, queries |-> <<>>, first |-> FALSE]

\* _parse_query(q) for a query string q of Q
CallParseQuery(Q) ==
    /\ call = NoCall
    /\ \E q \in Q :
        /\ call' = [op |-> "_parse_query", query |-> q, queries |-> <<>>, first |-> FALSE]
        /\ result' = ParseQuery(q)
        /\ UNCHANGED <<data, scan, history, outside>>

\* extract_json_path(data, q) for a query string q of Q
CallExtractJsonPath(Q) ==
    /\ call = NoCall
    /\ \E q \in Q :
        /\ call' = [op |-> "extract_json_path", query |-> q, queries |-> <<>>, first |-> FALSE]
        /\ result' = ExtractJsonPath(data, q)
        /\ UNCHANGED <<data, scan, history, outside>>

\* extract_json_paths(data, qs, first=f) for a list qs of QL
CallExtractJsonPaths(QL) ==
    /\ call = NoCall
    /\ \E qs \in QL, f \in BOOLEAN :
        /\ call' = [op |-> "extract_json_paths", query |-> <<>>, queries |-> qs, first |-> f]
        /\ result' = ExtractJsonPaths(data, qs, f)
        /\ UNCHANGED <<data, scan, history, outside>>

\* no evaluation in progress
NoScan ==
    [pc |-> "idle", raw |-> <<>>, i |-> 0, j |-> 0, quote |-> "", chars |-> <<>>,
     tokens |-> <<>>, k |-> 0, nodes |-> <<>>, iters |-> 0]

\* no variable set, no file, no Memory object, no trigger running
NoEnviron == [name \in {} |-> <<>>]

NoFiles == [path \in {} |-> <<>>]

NoMemory == [made |-> FALSE, path |-> "", max |-> 0, entries |-> <<>>]

NoPoll ==
    [pc |-> "idle", include_existing |-> FALSE, baseline_update_id |-> PyNone,
     poll_interval |-> 0, timeout_seconds |-> 0, deadline |-> 0, now |-> 0,
     updates |-> <<>>]

NoUpload ==
    [pc |-> "idle", pinecone_key |-> <<>>, host |-> <<>>, model |-> "", chunks |-> <<>>,
     vectors |-> <<>>, offset |-> 0, total |-> 0]

InitWith(D) ==
    /\ data \in D
    /\ call = NoCall
    /\ result = Return(<<>>)
    /\ scan = NoScan
    /\ history = <<>>
    /\ environ = NoEnviron
    /\ files = NoFiles
    /\ memory = NoMemory
    /\ poll = NoPoll
    /\ requests = <<>>
    /\ upload = NoUpload

\* the lists of at most n elements of S
ListsUpTo(S, n) == UNION {[1..k -> S] : k \in 0..n}

---------------------------------------------------------------------------
(* Documents and queries of the resolver: paths of at most MaxSegs segments
   over documents that nest dicts and lists of at most MaxItems elements *)

MaxItems == 2

MaxSegs == 3

MaxQueries == 2

ITEMS == <<"i", "t", "e", "m", "s">>

ID == <<"i", "d">>

Scalars == {PyNum(10), PyNone}

Records == {PyDict(<<Item(ID, PyNum(20))>>),
            PyDict(<<Item(ITEMS, PyList(<<PyNum(30), PyNum(40)>>)), Item(ID, PyNone)>>)}

Elements == {PyNum(10)} \cup Records

Lists == {PyList(l) : l \in ListsUpTo(Elements, MaxItems)}

Docs ==
    Scalars \cup Lists
      \cup {PyDict(<<Item(ITEMS, l)>>) : l \in Lists}
      \cup {PyDict(<<Item(ID, e), Item(ITEMS, e)>>) : e \in Elements}

FirstSegs == {ITEMS, <<"[", "0", "]">>, <<"[", "-", "1", "]">>, <<"*">>}

NextSegs == {<<".">> \o ID, <<".">> \o ITEMS, <<"[", "1", "]">>, <<"[", "*", "]">>}

RECURSIVE Paths(_)
Paths(n) ==
    IF n = 1 THEN FirstSegs
    ELSE LET P == Paths(n - 1) IN P \cup {p \o s : p \in P, s \in NextSegs}

Queries == Paths(MaxSegs)

\* query lists: well-formed and malformed queries in every position
ListQueries == {ITEMS \o <<"[", "*", "]">>, <<"[", "0", "]">> \o <<".">> \o ID,
                ITEMS \o <<".", ".">> \o ID, <<"[", SUP2, "]">>}

QueryLists == ListsUpTo(ListQueries, MaxQueries)

Init == InitWith(Docs)

Next ==
    \/ CallParseQuery(Queries)
    \/ CallExtractJsonPath(Queries)
    \/ CallExtractJsonPaths(QueryLists)

Spec == Init /\ [][Next]_vars

---------------------------------------------------------------------------
(* Properties of the resolver and the batch API, checked under Spec *)

Parsed == ParseQuery(call.query)

\* every value inside a document, the document included
RECURSIVE Nodes(_)
Nodes(node) ==
    {node} \cup
    (IF node.kind = "dict"
     THEN UNION {Nodes(node.items[n].value) : n \in 1..Len(node.items)}
     ELSE IF node.kind = "list"
     THEN UNION {Nodes(node.elems[n]) : n \in 1..Len(node.elems)}
     ELSE {})

HasMember(node, name) ==
    node.kind = "dict" /\ \E n \in 1..Len(node.items) : node.items[n].key = name

Member(node, name) ==
    (CHOOSE it \in {node.items[n] : n \in 1..Len(node.items)} : it.key = name).value

\* stepping from node through each token in turn: object member by exact key,
\* array element by position
RECURSIVE Lookup(_, _)
Lookup(node, tokens) ==
    IF tokens = <<>> THEN [found |-> TRUE, value |-> node]
    ELSE LET t == Head(tokens) IN
         IF t.kind = "field" /\ HasMember(node, t.value)
         THEN Lookup(Member(node, t.value), Tail(tokens))
         ELSE IF t.kind = "index" /\ node.kind = "list"
                 /\ 0 <= t.value /\ t.value < Len(node.elems)
         THEN Lookup(node.elems[t.value + 1], Tail(tokens))
         ELSE [found |-> FALSE, value |-> PyNone]

PlainTokens(tokens) ==
    \A k \in 1..Len(tokens) :
        \/ tokens[k].kind = "field"
        \/ tokens[k].kind = "index" /\ tokens[k].value >= 0

\* C1: a query of Field and non-negative Index tokens returns a list of
\* length 0 or 1; length 1 exactly when the direct lookup along the path
\* succeeds at every step, and then its element is the value reached.
C1_DirectLookup ==
    (call.op = "extract_json_path" /\ ~Raised(Parsed) /\ PlainTokens(Parsed.ret)) =>
        LET l == Lookup(data, Parsed.ret) IN
        /\ result.exc = "none"
        /\ Len(result.ret) <= 1
        /\ (Len(result.ret) = 1) <=> l.found
        /\ l.found => result.ret = <<l.value>>

C1_Witness ==
    /\ call.op = "extract_json_path"
    /\ ~Raised(Parsed)
    /\ PlainTokens(Parsed.ret)
    /\ Len(Parsed.ret) = 3
    /\ Parsed.ret[2].kind = "index"
    /\ result = Return(<<PyNum(20)>>)

\* a token applied to a node it cannot select from
Misapplied(node, t) ==
    \/ t.kind = "field" /\ ~HasMember(node, t.value)
    \/ t.kind = "index"
         /\ (node.kind # "list"
               \/ t.value >= Len(node.elems) \/ t.value < 0 - Len(node.elems))
    \/ t.kind = "wildcard" /\ node.kind \notin {"dict", "list"}

\* C2: for a query that tokenizes, resolution never raises; a Field on a
\* non-object or a missing key, an Index on a non-array or out of bounds and a
\* Wildcard on a scalar contribute nothing, so an absent path yields [].
C2_NeverRaises ==
    (call.op = "extract_json_path" /\ ~Raised(Parsed)) =>
        /\ result.exc = "none"
        /\ \A k \in 1..Len(Parsed.ret) : \A node \in Nodes(data) :
               Misapplied(node, Parsed.ret[k]) =>
                   ResolveToken(node, Parsed.ret[k]) = Return(<<>>)
        /\ (Parsed.ret # <<>> /\ Misapplied(data, Parsed.ret[1])) => result.ret = <<>>

C2_Witness ==
    /\ call.op = "extract_json_path"
    /\ ~Raised(Parsed)
    /\ data = PyList(<<>>)
    /\ Parsed.ret[1] = IndexToken(-1)
    /\ result = Return(<<>>)

\* C3: a malformed query always surfaces as JsonPathError; extract_json_paths
\* raises JsonPathError exactly when some query of the list is malformed,
\* whatever its position and whatever first is, and then returns no mapping.
C3_MalformedRaisesJsonPathError ==
    /\ (call.op = "extract_json_path" /\ Raised(Parsed)) =>
           result.exc = "JsonPathError"
    /\ call.op = "extract_json_paths" =>
           /\ result.exc = "JsonPathError"
                <=> \E n \in 1..Len(call.queries) : Raised(ParseQuery(call.queries[n]))
           /\ result.exc = "JsonPathError" => result.ret = <<>>

\* the value the mapping holds under key q
Entry(output, q) == Member(output, q)

\* C4: with well-formed queries, first=False maps each query to the full
\* match list of extract_json_path; first=True maps it to the first match, or
\* to None when there is no match.
C4_FirstOrAllMatches ==
    (call.op = "extract_json_paths"
       /\ \A n \in 1..Len(call.queries) : ~Raised(ParseQuery(call.queries[n]))) =>
        /\ result.exc = "none"
        /\ result.ret.kind = "dict"
        /\ \A n \in 1..Len(call.queries) :
               LET q == call.queries[n]
                   matches == ExtractJsonPath(data, q).ret
               IN  /\ HasMember(result.ret, q)
                   /\ Entry(result.ret, q) =
                         IF call.first
                         THEN IF matches = <<>> THEN PyNone ELSE matches[1]
                         ELSE PyList(matches)

C4_Witness ==
    /\ call.op = "extract_json_paths"
    /\ call.first
    /\ Len(call.queries) = 2
    /\ result.exc = "none"
    /\ Len(result.ret.items) = 2
    /\ result.ret.items[1].value = PyNone
    /\ result.ret.items[2].value = PyNum(10)
    /\ Len(ExtractJsonPath(data, call.queries[2]).ret) = 2
    /\ ExtractJsonPath(data, call.queries[1]).ret = <<>>

---------------------------------------------------------------------------
(* Documents {"items": [...]} with arrays of at most MaxArr elements, and the
   queries items[*].id and items[i] for every index i around the bounds *)

MaxArr == 3

A == <<"a">>

ItemElements ==
    {PyNum(10), PyNone, PyList(<<PyNum(10)>>),
     PyDict(<<Item(ID, PyNum(20))>>),
     PyDict(<<Item(A, PyNum(30))>>),
     PyDict(<<Item(A, PyNum(40)), Item(ID, PyNone)>>)}

ItemDocs == {PyDict(<<Item(ITEMS, PyList(l))>>) : l \in ListsUpTo(ItemElements, MaxArr)}

\* str(n) for n >= 0
RECURSIVE Decimal(_)
Decimal(n) ==
    IF n < 10 THEN <<DecimalDigits[n + 1]>>
    ELSE Decimal(n \div 10) \o <<DecimalDigits[(n % 10) + 1]>>

\* the query name[i]
IndexQuery(name, i) ==
    name \o <<"[">> \o (IF i < 0 THEN <<"-">> \o Decimal(0 - i) ELSE Decimal(i)) \o <<"]">>

IndexRange == (0 - (MaxArr + 1))..(MaxArr + 1)

ItemsWildcardId == ITEMS \o <<"[", "*", "]", ".">> \o ID

ItemQueries == {ItemsWildcardId} \cup {IndexQuery(ITEMS, i) : i \in IndexRange}

InitItems == InitWith(ItemDocs)

NextItems ==
    \/ CallParseQuery(ItemQueries)
    \/ CallExtractJsonPath(ItemQueries)
    \/ CallExtractJsonPaths(ListsUpTo({ItemsWildcardId, IndexQuery(ITEMS, -1)}, 1))

SpecItems == InitItems /\ [][NextItems]_vars

\* the id members of the elements that are objects with an id, in order
RECURSIVE IdsOf(_)
IdsOf(elems) ==
    IF elems = <<>> THEN <<>>
    ELSE (IF HasMember(Head(elems), ID) THEN <<Member(Head(elems), ID)>> ELSE <<>>)
           \o IdsOf(Tail(elems))

ItemsOf(d) == Member(d, ITEMS).elems

\* C5: items[*].id returns the id values of the elements of items that are
\* objects containing id, in array order; the other elements are skipped.
C5_WildcardFanOut ==
    (call.op = "extract_json_path" /\ call.query = ItemsWildcardId) =>
        /\ result = Return(IdsOf(ItemsOf(data)))
        /\ Len(result.ret) =
               Cardinality({n \in 1..Len(ItemsOf(data)) : HasMember(ItemsOf(data)[n], ID)})

C5_Witness ==
    /\ call.op = "extract_json_path"
    /\ call.query = ItemsWildcardId
    /\ Len(ItemsOf(data)) = 3
    /\ result = Return(<<PyNone, PyNum(20)>>)

\* C6: Index(i) on an array of length N emits the element at i when
\* 0 <= i < N, the element at N+i when -N <= i < 0, and nothing otherwise; so
\* items[-k] equals items[N-k] for 1 <= k <= N.
C6_IndexNormalisation ==
    \A i \in IndexRange :
        (call.op = "extract_json_path" /\ call.query = IndexQuery(ITEMS, i)) =>
            LET elems == ItemsOf(data)
                N == Len(elems)
                expected == IF 0 <= i /\ i < N THEN <<elems[i + 1]>>
                            ELSE IF 0 - N <= i /\ i < 0 THEN <<elems[N + i + 1]>>
                            ELSE <<>>
            IN  /\ Parsed = Return(<<FieldToken(ITEMS), IndexToken(i)>>)
                /\ ResolveToken(Member(data, ITEMS), IndexToken(i)) = Return(expected)
                /\ result = Return(expected)
                /\ (0 - N <= i /\ i < 0) =>
                       result = ExtractJsonPath(data, IndexQuery(ITEMS, N + i))

C6_Witness ==
    /\ call.op = "extract_json_path"
    /\ call.query = IndexQuery(ITEMS, -2)
    /\ Len(ItemsOf(data)) = 3
    /\ result = Return(<<ItemsOf(data)[2]>>)
    /\ ItemsOf(data)[2] # ItemsOf(data)[3]
    /\ ItemsOf(data)[2] # ItemsOf(data)[1]

---------------------------------------------------------------------------
(* Documents {k: 1} for every key k of at most MaxKeyLen characters, queried
   by k in a quoted bracket (either quote) and by k as a bare path *)

MaxKeyLen == 3

KeyAlphabet == {"a", "b", ".", "[", "]", "*", "$", SQUOTE, DQUOTE, BSLASH, SPACE}

Keys == ListsUpTo(KeyAlphabet, MaxKeyLen)

KeyDocs == {PyDict(<<Item(k, PyNum(1))>>) : k \in Keys}

\* k with a backslash before every backslash and every quote
RECURSIVE Escape(_, _)
Escape(k, quote) ==
    IF k = <<>> THEN <<>>
    ELSE (IF Head(k) \in {BSLASH, quote} THEN <<BSLASH, Head(k)>> ELSE <<Head(k)>>)
           \o Escape(Tail(k), quote)

\* the query [<quote>k<quote>] with k escaped
QuotedQuery(k, quote) == <<"[", quote>> \o Escape(k, quote) \o <<quote, "]">>

KeyOf(d) == d.items[1].key

KeyQueries(d) == {QuotedQuery(KeyOf(d), SQUOTE), QuotedQuery(KeyOf(d), DQUOTE), KeyOf(d)}

InitKey == InitWith(KeyDocs)

NextKey ==
    \/ CallParseQuery(KeyQueries(data))
    \/ CallExtractJsonPath(KeyQueries(data))
    \/ CallExtractJsonPaths(ListsUpTo(KeyQueries(data), 1))

SpecKey == InitKey /\ [][NextKey]_vars

\* a bare dotted path: names of plain characters with "." between them
DottedPath(q) ==
    /\ \E n \in 1..Len(q) : q[n] = "."
    /\ \A n \in 1..Len(q) : q[n] \in {"a", "b", "."}
    /\ q[1] # "." /\ q[Len(q)] # "."
    /\ \A n \in 1..(Len(q) - 1) : ~(q[n] = "." /\ q[n + 1] = ".")

\* C7: a key written in a quoted bracket, with a backslash before every
\* backslash and every delimiting quote, tokenizes to the one Field token of
\* that key, so the query returns [v] on {k: v}; a bare dotted path does not
\* select the key of that name and returns [].
C7_QuotedKeyRoundTrip ==
    /\ \A quote \in {SQUOTE, DQUOTE} :
           call.query = QuotedQuery(KeyOf(data), quote) =>
               /\ call.op = "_parse_query" => result = Return(<<FieldToken(KeyOf(data))>>)
               /\ call.op = "extract_json_path" => result = Return(<<PyNum(1)>>)
    /\ (call.op \in {"_parse_query", "extract_json_path"}
          /\ call.query = KeyOf(data) /\ DottedPath(call.query)) =>
           /\ ~Raised(Parsed)
           /\ \A n \in 1..Len(Parsed.ret) : Parsed.ret[n] # FieldToken(KeyOf(data))
           /\ call.op = "extract_json_path" => result = Return(<<>>)

C7_Witness ==
    /\ call.op = "extract_json_path"
    /\ KeyOf(data) = <<SQUOTE, BSLASH, ".">>
    /\ call.query = <<"[", SQUOTE, BSLASH, SQUOTE, BSLASH, BSLASH, ".", SQUOTE, "]">>
    /\ result = Return(<<PyNum(1)>>)

C7_WitnessBare ==
    /\ call.op = "extract_json_path"
    /\ KeyOf(data) = <<"a", ".", "b">>
    /\ call.query = <<"a", ".", "b">>
    /\ result = Return(<<>>)

---------------------------------------------------------------------------
(* The tokenizer on every string of at most MaxLen characters *)

MaxLen == 4

TokAlphabet == {"a", ".", "[", "]", "$", "*", "0", SQUOTE, SUP2, SPACE}

RawQueries == ListsUpTo(TokAlphabet, MaxLen)

\* longer queries: dots inside quoted bracket keys
QuotedDotQueries ==
    {<<"[", SQUOTE, ".", ".", SQUOTE, "]">>,
     <<"[", DQUOTE, ".", DQUOTE, "]">>,
     <<"a", "[", SQUOTE, "a", ".", SQUOTE, "]">>,
     <<"[", SQUOTE, ".", ".", SQUOTE, "]", ".">>,
     <<"[", SQUOTE, BSLASH, SQUOTE, ".", ".", SQUOTE, "]">>}

\* queries with a bracket straight after a "."
DotBracketQueries ==
    {<<"a", ".", "[", "0", "]">>,
     <<"a", ".", "[", "*", "]">>,
     <<"a", ".", "[", SQUOTE, "k", SQUOTE, "]">>,
     <<"$", ".", "a", ".", "[", "-", "1", "]">>}

BracketSegments ==
    {<<"[", "0", "]">>, <<"[", "-", "1", "]">>, <<"[", "*", "]">>,
     <<"[", SQUOTE, "a", SQUOTE, "]">>}

BareSegments == {<<"a">>, <<"*">>}

\* queries with a bare segment straight after a bracket or a bare "*"
UnseparatedQueries ==
    {h \o b \o s : h \in {<<>>, <<"a">>}, b \in BracketSegments, s \in BareSegments}
      \cup {h \o <<"*">> \o s : h \in {<<>>, <<"a", ".">>}, s \in BareSegments}

TokQueries ==
    RawQueries \cup QuotedDotQueries \cup DotBracketQueries \cup UnseparatedQueries

TokDocs == {PyDict(<<Item(A, PyList(<<PyNum(10), PyNum(20)>>)), Item(<<"$">>, PyNone)>>),
            PyList(<<PyDict(<<Item(A, PyNum(10))>>)>>)}

InitTok == InitWith(TokDocs)

NextTok ==
    \/ CallParseQuery(TokQueries)
    \/ CallExtractJsonPath(TokQueries)
    \/ CallExtractJsonPaths(ListsUpTo(QuotedDotQueries, 1))

SpecTok == InitTok /\ [][NextTok]_vars

Rooted(q) == <<"$">> \o q

RootedDot(q) == <<"$", ".">> \o q

\* C8 as stated: for every query Q that tokenizes, "$" + Q and "$." + Q
\* tokenize to the same token sequence and return the same result.
C8_RootMarkerNoEffect ==
    (call.op \in {"_parse_query", "extract_json_path"} /\ ~Raised(Parsed)) =>
        /\ ParseQuery(Rooted(call.query)) = Parsed
        /\ ParseQuery(RootedDot(call.query)) = Parsed
        /\ call.op = "extract_json_path" =>
               /\ ExtractJsonPath(data, Rooted(call.query)) = result
               /\ ExtractJsonPath(data, RootedDot(call.query)) = result

\* C8 amended: the same for every query Q that tokenizes and begins neither
\* with "$" nor with whitespace.
C8_RootMarkerNoEffectUnrooted ==
    (call.op \in {"_parse_query", "extract_json_path"} /\ ~Raised(Parsed)
       /\ Head(call.query) \notin {"$"} \cup Whitespace) =>
        /\ ParseQuery(Rooted(call.query)) = Parsed
        /\ ParseQuery(RootedDot(call.query)) = Parsed
        /\ call.op = "extract_json_path" =>
               /\ ExtractJsonPath(data, Rooted(call.query)) = result
               /\ ExtractJsonPath(data, RootedDot(call.query)) = result

C8_Witness ==
    /\ call.op = "extract_json_path"
    /\ call.query = <<"a", "[", "0", "]">>
    /\ result = Return(<<PyNum(10)>>)
    /\ ExtractJsonPath(data, RootedDot(call.query)) = result
    /\ ParseQuery(Rooted(call.query)) = Return(<<FieldToken(A), IndexToken(0)>>)

\* the positions of the "." characters of r from position n on that are not
\* inside a quoted bracket key; quote is the open quote, "" outside a key
RECURSIVE DotsOutsideKeys(_, _, _)
DotsOutsideKeys(r, n, quote) ==
    IF n > Len(r) THEN {}
    ELSE IF quote = ""
    THEN IF r[n] = "[" /\ n < Len(r) /\ r[n + 1] \in {SQUOTE, DQUOTE}
         THEN DotsOutsideKeys(r, n + 2, r[n + 1])
         ELSE (IF r[n] = "." THEN {n} ELSE {}) \cup DotsOutsideKeys(r, n + 1, "")
    ELSE IF r[n] = BSLASH THEN DotsOutsideKeys(r, n + 2, quote)
    ELSE IF r[n] = quote THEN DotsOutsideKeys(r, n + 1, "")
    ELSE DotsOutsideKeys(r, n + 1, quote)

\* the query, its root marker stripped, begins or ends with "." or has two
\* consecutive "." outside a quoted bracket key
MisplacedDot(q) ==
    LET r == StripRoot(Strip(q))
        dots == DotsOutsideKeys(r, 1, "")
    IN  /\ r # <<>>
        /\ \/ r[1] = "."
           \/ r[Len(r)] = "."
           \/ \E n \in dots : n + 1 \in dots

\* C9: tokenizing raises JsonPathError for every query that, after the root
\* marker is stripped, begins with ".", ends with "." or contains ".." outside
\* a quoted bracket key.
C9_MisplacedDotRaisesJsonPathError ==
    (call.op \in {"_parse_query", "extract_json_path"} /\ MisplacedDot(call.query)) =>
        result.exc = "JsonPathError"

RootMarkers == {<<"$">>, <<"$", ".">>}

\* C10 as stated: tokenizing fails with JsonPathError when the query is empty
\* and when it consists only of the root marker.
C10_EmptyOrRootOnlyRaises ==
    (call.op = "_parse_query" /\ call.query \in {<<>>} \cup RootMarkers) =>
        result.exc = "JsonPathError"

\* C10 amended: tokenizing fails with JsonPathError when the query is empty;
\* a query that is only the root marker yields the empty token sequence.
C10_EmptyRaisesRootOnlyReturns ==
    call.op = "_parse_query" =>
        /\ call.query = <<>> => result.exc = "JsonPathError"
        /\ call.query \in RootMarkers => result = Return(<<>>)

C10_Witness ==
    /\ call.op = "_parse_query"
    /\ call.query = <<"$", ".">>
    /\ result = Return(<<>>)


---------------------------------------------------------------------------
(* C11: the root-only query *)

\* C11: a query that tokenizes has at least one token unless nothing is left
\* once the root marker is stripped; extract_json_path(D, "$") and
\* extract_json_path(D, "$.") return [D].
C11_RootOnlyIsIdentity ==
    /\ (call.op = "_parse_query" /\ ~Raised(result)) =>
           (Len(result.ret) >= 1 <=> Strip(call.query) \notin RootMarkers)
    /\ (call.op = "extract_json_path" /\ call.query \in RootMarkers) =>
           result = Return(<<data>>)

C11_Witness ==
    /\ call.op = "extract_json_path"
    /\ call.query = <<"$", ".">>
    /\ IsList(data)
    /\ result = Return(<<data>>)


---------------------------------------------------------------------------
(* C12: empty bare field names *)

\* a "." outside a quoted bracket key is immediately followed by "[" or "."
EmptyFieldName(q) ==
    LET r == StripRoot(Strip(q)) IN
    \E n \in DotsOutsideKeys(r, 1, "") : n < Len(r) /\ r[n + 1] \in {"[", "."}

\* C12: tokenizing raises JsonPathError whenever a bare field name would be
\* empty: for every query in which "." is immediately followed by "[" and
\* for two dots in a row.
C12_EmptyFieldNameRaises ==
    (call.op \in {"_parse_query", "extract_json_path"} /\ EmptyFieldName(call.query)) =>
        result.exc = "JsonPathError"


---------------------------------------------------------------------------
(* C13: the bracket grammar *)

\* s from position n on is the text of a quoted key: escape pairs and
\* characters other than the quote and the backslash
RECURSIVE IsKeyText(_, _, _)
IsKeyText(s, n, quote) ==
    IF n > Len(s) THEN TRUE
    ELSE IF s[n] = BSLASH THEN n < Len(s) /\ IsKeyText(s, n + 2, quote)
    ELSE s[n] # quote /\ IsKeyText(s, n + 1, quote)

\* body is "*", an optional "-" before one or more decimal digits, or a
\* quoted string closed by the quote that opened it
IsBracketBody(body) ==
    \/ body = <<"*">>
    \/ LET digits == IF body # <<>> /\ Head(body) = "-" THEN Tail(body) ELSE body IN
           digits # <<>> /\ \A k \in 1..Len(digits) : digits[k] \in DecimalChars
    \/ /\ Len(body) >= 2
       /\ body[1] \in {SQUOTE, DQUOTE}
       /\ body[Len(body)] = body[1]
       /\ IsKeyText(SubSeq(body, 2, Len(body) - 1), 1, body[1])

\* raw opens with a bracket whose body is well formed and closed by "]"
OpensWithBracket(raw) ==
    \E e \in 2..Len(raw) : raw[e] = "]" /\ IsBracketBody(SubSeq(raw, 2, e - 1))

\* C13: a bracket is accepted exactly when its body is "*", an optional "-"
\* followed by one or more digits, or a quoted string closed by its opening
\* quote, each immediately followed by "]"; every other bracket raises
\* JsonPathError and produces no token.
C13_BracketGrammar ==
    LET raw == StripRoot(Strip(call.query)) IN
    (call.op = "_parse_query" /\ raw # <<>> /\ Head(raw) = "[") =>
        LET b == ParseBracket(raw, 0) IN
        IF OpensWithBracket(raw)
        THEN ~Raised(b) /\ (Raised(result) \/ Head(result.ret) = b.ret.token)
        ELSE b.exc = "JsonPathError" /\ result = b


---------------------------------------------------------------------------
(* C14: the exception type *)

\* C14: for every query string and every document, extract_json_path returns
\* a list or raises JsonPathError; no other exception comes out of
\* tokenizing (the integer conversion of a bracket index included) or
\* resolving.
C14_OnlyJsonPathError ==
    call.op \in {"_parse_query", "extract_json_path"} =>
        result.exc \in {"none", "JsonPathError"}


---------------------------------------------------------------------------
(* C15: the resolver over objects.  A container of the document is the
   object at a place: the keys and positions that lead to it from the root.
   A list the resolver handles is a list object: own is Fresh for a list the
   code creates and the place of a container of the document for that
   container itself; elems are the places of its elements. *)

Fresh == "fresh"

KeyStep(k) == [kind |-> "key", key |-> k, idx |-> 0]

IndexStep(n) == [kind |-> "idx", key |-> <<>>, idx |-> n]

\* the node of document d at a place
RECURSIVE NodeAt(_, _)
NodeAt(d, place) ==
    IF place = <<>> THEN d
    ELSE LET step == Head(place) IN
         IF step.kind = "key"
         THEN NodeAt(DictGetItem(d, step.key).ret, Tail(place))
         ELSE NodeAt(ListGetItem(d, step.idx).ret, Tail(place))

ListObject(own, elems) == [own |-> own, elems |-> elems]

\* return [node[token.value]] / return []
ResolveFieldAt(d, place, token) ==
    LET node == NodeAt(d, place) IN
    IF IsDict(node) /\ DictHas(node, token.value)
    THEN ListObject(Fresh, <<Append(place, KeyStep(token.value))>>)
    ELSE ListObject(Fresh, <<>>)

\* return [node[index]] / return []
ResolveIndexAt(d, place, token) ==
    LET node == NodeAt(d, place) IN
    IF ~IsList(node) THEN ListObject(Fresh, <<>>)
    ELSE LET index == IF token.value < 0
                      THEN token.value + Len(node.elems)
                      ELSE token.value
         IN  IF 0 <= index /\ index < Len(node.elems)
             THEN ListObject(Fresh, <<Append(place, IndexStep(index))>>)
             ELSE ListObject(Fresh, <<>>)

\* ResolveWildcardAt handing back the list node itself
ResolveWildcardAtNoCopy(d, place) ==
    LET node == NodeAt(d, place) IN
    IF IsDict(node)
    THEN ListObject(Fresh, [n \in 1..Len(node.items) |->
                               Append(place, KeyStep(node.items[n].key))])
    ELSE IF IsList(node)
    THEN ListObject(place, [n \in 1..Len(node.elems) |-> Append(place, IndexStep(n - 1))])
    ELSE ListObject(Fresh, <<>>)

\* return list(node.values()) / return list(node) / return []
ResolveWildcardAt(d, place) ==
    LET node == NodeAt(d, place) IN
    IF IsDict(node)
    THEN ListObject(Fresh, [n \in 1..Len(node.items) |->
                               Append(place, KeyStep(node.items[n].key))])
    ELSE IF IsList(node)
    THEN ListObject(Fresh, [n \in 1..Len(node.elems) |-> Append(place, IndexStep(n - 1))])
    ELSE ListObject(Fresh, <<>>)

ResolveTokenAt(d, place, token) ==
    IF token.kind = "field" THEN ResolveFieldAt(d, place, token)
    ELSE IF token.kind = "index" THEN ResolveIndexAt(d, place, token)
    ELSE IF token.kind = "wildcard" THEN ResolveWildcardAt(d, place)
    ELSE ListObject(Fresh, <<>>)

\* for node in nodes: next_nodes.extend(_resolve_token(node, token)), from
\* the n-th node; made are the list objects _resolve_token has handed back
RECURSIVE ExtendLoopAt(_, _, _, _, _, _)
ExtendLoopAt(d, nodes, n, token, next_nodes, made) ==
    IF n > Len(nodes.elems) THEN [nodes |-> next_nodes, made |-> made]
    ELSE LET r == ResolveTokenAt(d, nodes.elems[n], token) IN
         ExtendLoopAt(d, nodes, n + 1, token,
                      ListObject(next_nodes.own, next_nodes.elems \o r.elems),
                      Append(made, r))

\* for token in tokens: next_nodes = [] ...; nodes = next_nodes
RECURSIVE ResolveLoopAt(_, _, _, _, _)
ResolveLoopAt(d, tokens, k, nodes, made) ==
    IF k > Len(tokens) THEN [nodes |-> nodes, made |-> made]
    ELSE LET r == ExtendLoopAt(d, nodes, 1, tokens[k], ListObject(Fresh, <<>>), made) IN
         IF r.nodes.elems = <<>> THEN r
         ELSE ResolveLoopAt(d, tokens, k + 1, r.nodes, r.made)

\* extract_json_path over objects: the list object returned and the list
\* objects _resolve_token made on the way; nodes = [data] is a new list
ExtractJsonPathAt(d, query) ==
    LET tokens == ParseQuery(query) IN
    IF Raised(tokens) THEN tokens
    ELSE Return(ResolveLoopAt(d, tokens.ret, 1, ListObject(Fresh, <<<<>>>>), <<>>))

\* extract_json_path(data, q), the lists it handles taken as objects
CallExtractJsonPathAt(Q) ==
    /\ call = NoCall
    /\ \E q \in Q :
        /\ call' = [op |-> "extract_json_path objects", query |-> q,
                    queries |-> <<>>, first |-> FALSE]
        /\ result' = ExtractJsonPathAt(data, q)
        /\ UNCHANGED <<data, scan, history, outside>>

InitAt == InitWith(Docs)

NextAt ==
    \/ CallExtractJsonPathAt(Queries \cup ListQueries)
    \/ CallExtractJsonPaths(QueryLists)

SpecAt == InitAt /\ [][NextAt]_vars

\* C15: extract_json_path and extract_json_paths leave the document
\* unchanged whether the call returns or raises, and every list the
\* resolver makes for a token, the list of a Wildcard over an array
\* included, and the list returned are new lists, not a container of the
\* document.
C15_DocumentUnchanged ==
    [][/\ data' = data
       /\ (call'.op = "extract_json_path objects" /\ ~Raised(result')) =>
              /\ result'.ret.nodes.own = Fresh
              /\ \A n \in 1..Len(result'.ret.made) : result'.ret.made[n].own = Fresh]_vars

\* a Wildcard over an array of two elements has returned its elements, the
\* same nodes the resolver over values returns
C15_Witness ==
    /\ call.op = "extract_json_path objects"
    /\ call.query = ITEMS \o <<"[", "*", "]">>
    /\ IsDict(data) /\ DictHas(data, ITEMS)
    /\ ~Raised(result)
    /\ Len(result.ret.nodes.elems) = 2
    /\ result.ret.nodes.elems[2] = <<KeyStep(ITEMS), IndexStep(1)>>
    /\ Len(result.ret.made) = 2
    /\ [n \in 1..2 |-> NodeAt(data, result.ret.nodes.elems[n])]
         = ExtractJsonPath(data, call.query).ret

\* the resolver over objects returns the places of the nodes the resolver
\* over values returns
PlacesAreNodes ==
    call.op = "extract_json_path objects" =>
        IF Raised(result) THEN result = ExtractJsonPath(data, call.query)
        ELSE [n \in 1..Len(result.ret.nodes.elems) |-> NodeAt(data, result.ret.nodes.elems[n])]
               = ExtractJsonPath(data, call.query).ret


---------------------------------------------------------------------------
(* C16: extract_json_path step by step.  scan.pc is the loop the evaluation
   is at the top of: "main" (while i < len(raw), _parse_query), "quoted"
   and "digits" (the two loops of _parse_bracket), "field" (the field scan
   of _parse_query), "resolve" (for token in tokens, extract_json_path);
   scan.i is the position of the main loop, scan.j the position of the
   inner loop, scan.k the next token, scan.iters the main-loop iterations
   begun.  One step is one iteration of the loop, or the exit from it up to
   the next loop top. *)

ScanRaise(o) ==
    /\ scan' = [scan EXCEPT !.pc = "raised"]
    /\ result' = o

\* back at the top of the main loop at position next, token appended
ScanToken(token, next) ==
    /\ scan' = [scan EXCEPT !.pc = "main", !.i = next,
                            !.tokens = Append(scan.tokens, token)]
    /\ UNCHANGED result

\* extract_json_path(data, q) called, its first statement not yet run
ScanCalled(q) ==
    [op |-> "extract_json_path steps", query |-> q, queries |-> <<>>, first |-> FALSE]

\* lines 150 and 68-81: strip, the empty query, the root marker
ScanCall ==
    /\ scan.pc = "idle"
    /\ call.op = "extract_json_path steps"
    /\ LET stripped == Strip(call.query) IN
       IF stripped = <<>>
       THEN /\ scan' = [scan EXCEPT !.pc = "raised"]
            /\ result' = JsonPathError("Query cannot be empty.")
       ELSE LET raw == StripRoot(stripped) IN
            /\ scan' = [scan EXCEPT !.pc = IF raw = <<>> THEN "resolve" ELSE "main",
                                    !.raw = raw, !.k = 1, !.nodes = <<data>>]
            /\ UNCHANGED result
    /\ UNCHANGED <<data, call, history, outside>>

\* the entry of _parse_bracket at the "[" of position scan.i, up to the top
\* of its quoted-key or digit loop
ScanBracket ==
    LET raw == scan.raw
        i == scan.i + 1
    IN  IF i >= Len(raw)
        THEN ScanRaise(JsonPathError("Unterminated bracket expression."))
        ELSE IF At(raw, i) = "*"
        THEN IF i + 1 >= Len(raw) \/ At(raw, i + 1) # "]"
             THEN ScanRaise(JsonPathError("Wildcard bracket must be [*]."))
             ELSE /\ scan' = [scan EXCEPT !.i = i + 2, !.iters = @ + 1,
                                          !.tokens = Append(@, WildcardToken)]
                  /\ UNCHANGED result
        ELSE IF At(raw, i) \in {SQUOTE, DQUOTE}
        THEN /\ scan' = [scan EXCEPT !.pc = "quoted", !.quote = At(raw, i), !.j = i + 1,
                                     !.chars = <<>>, !.iters = @ + 1]
             /\ UNCHANGED result
        ELSE LET j == IF At(raw, i) = "-" THEN i + 1 ELSE i IN
             IF j >= Len(raw) \/ ~IsDigit(At(raw, j))
             THEN ScanRaise(JsonPathError(
                      "Bracket expression must be an index, wildcard, or quoted key."))
             ELSE /\ scan' = [scan EXCEPT !.pc = "digits", !.j = j, !.iters = @ + 1]
                  /\ UNCHANGED result

\* one iteration of the main loop of _parse_query, up to the next loop top;
\* the loop exit hands the tokens to the resolver
ScanMain ==
    /\ scan.pc = "main"
    /\ LET raw == scan.raw
           i == scan.i
       IN  IF i >= Len(raw)
           THEN /\ scan' = [scan EXCEPT !.pc = "resolve"]
                /\ UNCHANGED result
           ELSE IF At(raw, i) = "."
           THEN IF i = 0 \/ i + 1 >= Len(raw) \/ At(raw, i + 1) = "."
                THEN ScanRaise(JsonPathError("Invalid '.' placement in query."))
                ELSE /\ scan' = [scan EXCEPT !.i = i + 1, !.iters = @ + 1]
                     /\ UNCHANGED result
           ELSE IF At(raw, i) = "[" THEN ScanBracket
           ELSE IF At(raw, i) = "*"
           THEN /\ scan' = [scan EXCEPT !.i = i + 1, !.iters = @ + 1,
                                        !.tokens = Append(@, WildcardToken)]
                /\ UNCHANGED result
           ELSE /\ scan' = [scan EXCEPT !.pc = "field", !.j = i, !.iters = @ + 1]
                /\ UNCHANGED result
    /\ UNCHANGED <<data, call, history, outside>>

\* ScanQuotedKey staying on a backslash
ScanQuotedKeyStuck ==
    /\ scan.pc = "quoted"
    /\ LET raw == scan.raw
           j == scan.j
       IN  IF j >= Len(raw)
           THEN ScanRaise(JsonPathError("Unterminated quoted bracket key."))
           ELSE IF At(raw, j) = BSLASH
           THEN IF j + 1 >= Len(raw)
                THEN ScanRaise(JsonPathError("Invalid escape in bracket key."))
                ELSE UNCHANGED <<scan, result>>
           ELSE IF At(raw, j) = scan.quote
           THEN IF j + 1 >= Len(raw) \/ At(raw, j + 1) # "]"
                THEN ScanRaise(JsonPathError("Quoted bracket key must end with ]."))
                ELSE ScanToken(FieldToken(scan.chars), j + 2)
           ELSE /\ scan' = [scan EXCEPT !.j = j + 1, !.chars = Append(@, At(raw, j))]
                /\ UNCHANGED result
    /\ UNCHANGED <<data, call, history, outside>>

\* one iteration of the quoted-key loop of _parse_bracket (lines 38-53)
ScanQuotedKey ==
    /\ scan.pc = "quoted"
    /\ LET raw == scan.raw
           j == scan.j
       IN  IF j >= Len(raw)
           THEN ScanRaise(JsonPathError("Unterminated quoted bracket key."))
           ELSE IF At(raw, j) = BSLASH
           THEN IF j + 1 >= Len(raw)
                THEN ScanRaise(JsonPathError("Invalid escape in bracket key."))
                ELSE /\ scan' = [scan EXCEPT !.j = j + 2, !.chars = Append(@, At(raw, j + 1))]
                     /\ UNCHANGED result
           ELSE IF At(raw, j) = scan.quote
           THEN IF j + 1 >= Len(raw) \/ At(raw, j + 1) # "]"
                THEN ScanRaise(JsonPathError("Quoted bracket key must end with ]."))
                ELSE ScanToken(FieldToken(scan.chars), j + 2)
           ELSE /\ scan' = [scan EXCEPT !.j = j + 1, !.chars = Append(@, At(raw, j))]
                /\ UNCHANGED result
    /\ UNCHANGED <<data, call, history, outside>>

\* one iteration of the digit loop of _parse_bracket, or its exit: the "]"
\* and the conversion of query[i:j] (lines 60-64)
ScanDigits ==
    /\ scan.pc = "digits"
    /\ LET raw == scan.raw
           j == scan.j
       IN  IF j < Len(raw) /\ IsDigit(At(raw, j))
           THEN /\ scan' = [scan EXCEPT !.j = j + 1]
                /\ UNCHANGED result
           ELSE IF j >= Len(raw) \/ At(raw, j) # "]"
           THEN ScanRaise(JsonPathError("Array index bracket must end with ]."))
           ELSE LET n == PyInt(Slice(raw, scan.i + 1, j)) IN
                IF Raised(n) THEN ScanRaise(n)
                ELSE ScanToken(IndexToken(n.ret), j + 1)
    /\ UNCHANGED <<data, call, history, outside>>

\* one iteration of the field scan of _parse_query, or its exit (lines 102-108)
ScanField ==
    /\ scan.pc = "field"
    /\ LET raw == scan.raw
           j == scan.j
       IN  IF j < Len(raw) /\ At(raw, j) \notin {".", "["}
           THEN /\ scan' = [scan EXCEPT !.j = j + 1]
                /\ UNCHANGED result
           ELSE LET name == Slice(raw, scan.i, j) IN
                IF name = <<>>
                THEN ScanRaise(JsonPathError("Invalid field token in query."))
                ELSE ScanToken(FieldToken(name), j)
    /\ UNCHANGED <<data, call, history, outside>>

\* ScanResolve returning the last frontier that held a node
ScanResolveLastNodes ==
    /\ scan.pc = "resolve"
    /\ IF scan.k > Len(scan.tokens)
       THEN /\ scan' = [scan EXCEPT !.pc = "done"]
            /\ result' = Return(scan.nodes)
       ELSE LET r == ExtendLoop(scan.nodes, 1, scan.tokens[scan.k], <<>>) IN
            IF Raised(r) THEN ScanRaise(r)
            ELSE IF r.ret = <<>>
            THEN /\ scan' = [scan EXCEPT !.pc = "done"]
                 /\ result' = Return(scan.nodes)
            ELSE /\ scan' = [scan EXCEPT !.k = @ + 1, !.nodes = r.ret]
                 /\ UNCHANGED result
    /\ UNCHANGED <<data, call, history, outside>>

\* one pass of "for token in tokens" over the frontier (lines 152-159)
ScanResolve ==
    /\ scan.pc = "resolve"
    /\ IF scan.k > Len(scan.tokens)
       THEN /\ scan' = [scan EXCEPT !.pc = "done"]
            /\ result' = Return(scan.nodes)
       ELSE LET r == ExtendLoop(scan.nodes, 1, scan.tokens[scan.k], <<>>) IN
            IF Raised(r) THEN ScanRaise(r)
            ELSE IF r.ret = <<>>
            THEN /\ scan' = [scan EXCEPT !.pc = "done", !.nodes = r.ret]
                 /\ result' = Return(r.ret)
            ELSE /\ scan' = [scan EXCEPT !.k = @ + 1, !.nodes = r.ret]
                 /\ UNCHANGED result
    /\ UNCHANGED <<data, call, history, outside>>

MaxScanLen == 4

ScanAlphabet == {"a", ".", "[", "]", "0", SQUOTE, BSLASH}

ScanQueries ==
    ListsUpTo(ScanAlphabet, MaxScanLen) \cup QuotedDotQueries \cup DotBracketQueries
      \cup {<<"a", "[", "*", "]", "[", "-", "1", "]">>,
            <<"[", SUP2, "]">>,
            <<"[", DQUOTE, BSLASH, DQUOTE, "a", DQUOTE, "]">>}

ScanDocs == {PyDict(<<Item(A, PyList(<<PyNum(10), PyNum(20)>>)), Item(<<"$">>, PyNone)>>)}

\* a document and the query of the call to evaluate
InitScan ==
    /\ data \in ScanDocs
    /\ call \in {ScanCalled(q) : q \in ScanQueries}
    /\ result = Return(<<>>)
    /\ scan = NoScan
    /\ history = <<>>
    /\ environ = NoEnviron
    /\ files = NoFiles
    /\ memory = NoMemory
    /\ poll = NoPoll
    /\ requests = <<>>
    /\ upload = NoUpload

NextScan ==
    \/ ScanCall
    \/ ScanMain
    \/ ScanQuotedKey
    \/ ScanDigits
    \/ ScanField
    \/ ScanResolve

SpecScan == InitScan /\ [][NextScan]_vars

\* every loop iteration is eventually taken
FairScan == SpecScan /\ WF_vars(NextScan)

ScanFinished == scan.pc \in {"done", "raised"}

\* each loop moves forward: the main loop and the loops of the bracket
\* sub-parser and of the field scan by at least one character within the
\* query, the resolver by one token
ScanAdvances ==
    /\ (scan'.pc = "main" /\ scan.pc # "idle") =>
           scan'.i > scan.i /\ scan'.i <= Len(scan.raw)
    /\ (scan.pc \in {"quoted", "digits", "field"} /\ scan'.pc = scan.pc) =>
           scan'.j > scan.j /\ scan'.j <= Len(scan.raw)
    /\ (scan.pc = "resolve" /\ scan'.pc = "resolve") =>
           scan'.k = scan.k + 1 /\ scan'.k <= Len(scan.tokens) + 1
    /\ scan'.iters <= Len(call'.query)

\* C16: evaluation always terminates: the scan position strictly increases
\* on every iteration of the main loop and of the bracket sub-parser, the
\* tokenizer finishes within len(query) iterations, and the resolver makes
\* at most one pass per token.
C16_Terminates == [][ScanAdvances]_vars /\ <>ScanFinished

\* a quoted key with an escaped quote has been scanned to the end and the
\* evaluation has returned
C16_Witness ==
    /\ scan.pc = "done"
    /\ call.query = <<"[", SQUOTE, BSLASH, SQUOTE, ".", ".", SQUOTE, "]">>
    /\ scan.tokens = <<FieldToken(<<SQUOTE, ".", ".">>)>>
    /\ scan.iters = 1
    /\ result = Return(<<>>)

\* the evaluation step by step ends as extract_json_path does
ScanAgrees == ScanFinished => result = ExtractJsonPath(data, call.query)


---------------------------------------------------------------------------
(* C17: the keys of the batch result *)

\* one path written three ways, and two other paths
BatchQueries ==
    {ITEMS \o <<"[", "*", "]">>,
     <<"$", ".">> \o ITEMS \o <<"[", "*", "]">>,
     <<SPACE>> \o ITEMS \o <<"[", "*", "]">>,
     ID,
     <<"[", "0", "]">>}

BatchQueryLists ==
    ListsUpTo(BatchQueries, MaxQueries)
      \cup {<<ITEMS \o <<"[", "*", "]">>,
              <<"$", ".">> \o ITEMS \o <<"[", "*", "]">>,
              ITEMS \o <<"[", "*", "]">>>>}

InitBatch == InitWith(Docs)

NextBatch == CallExtractJsonPaths(BatchQueryLists)

SpecBatch == InitBatch /\ [][NextBatch]_vars

\* what extract_json_paths maps the single query q to
SingleEntry(d, q, first) == ExtractJsonPaths(d, <<q>>, first).ret.items[1].value

\* C17: the mapping extract_json_paths returns has exactly one key per
\* distinct literal query string, strings that differ only by the root
\* marker or by whitespace being distinct keys and a repeated string giving
\* one entry; the value under a key depends only on the document, that query
\* string and first.
C17_OneKeyPerQueryString ==
    (call.op = "extract_json_paths" /\ ~Raised(result)) =>
        LET out == result.ret.items
            asked == {call.queries[n] : n \in 1..Len(call.queries)}
        IN  /\ Len(out) = Cardinality(asked)
            /\ {out[n].key : n \in 1..Len(out)} = asked
            /\ \A n \in 1..Len(out) :
                   out[n].value = SingleEntry(data, out[n].key, call.first)

\* the same path asked for three times, once with the root marker: two keys
\* in the order of their first appearance, with equal values
C17_Witness ==
    /\ call.op = "extract_json_paths"
    /\ Len(call.queries) = 3
    /\ ~call.first
    /\ ~Raised(result)
    /\ Len(result.ret.items) = 2
    /\ result.ret.items[1].key = ITEMS \o <<"[", "*", "]">>
    /\ result.ret.items[2].key = <<"$", ".">> \o ITEMS \o <<"[", "*", "]">>
    /\ result.ret.items[1].value = result.ret.items[2].value
    /\ Len(result.ret.items[1].value.elems) = 2


---------------------------------------------------------------------------
(* C18: the command line tool commlinkio-json-extract (tools/json_extract.py).
   The json_file argument is a file that is missing, is not JSON, or holds
   the document data; a run ends with an exit code, what it printed on
   stdout and what it printed on stderr, or with an exception no handler of
   main catches. *)

Exit(code, stdout, stderr) == Return([code |-> code, stdout |-> stdout, stderr |-> stderr])

\* load_json_file(args.json_file)
LoadJsonFile(file, d) ==
    IF file = "missing" THEN Raise("FileNotFoundError", "")
    ELSE IF file = "invalid" THEN Raise("JSONDecodeError", "")
    ELSE Return(d)

\* results[query] is None if args.first else len(results[query]) == 0
IsMissing(results, query, first) ==
    LET v == DictGetItem(results, query).ret IN
    IF first THEN v = PyNone ELSE Len(v.elems) = 0

\* [query for query in args.query if ...]
RECURSIVE MissingQueries(_, _, _)
MissingQueries(results, queries, first) ==
    IF queries = <<>> THEN <<>>
    ELSE (IF IsMissing(results, Head(queries), first) THEN <<Head(queries)>> ELSE <<>>)
           \o MissingQueries(results, Tail(queries), first)

\* lines 71-89 of main: the --required test and the printed result
RequiredReport(file, results, missing_queries, required) ==
    IF required /\ missing_queries # <<>>
    THEN Exit(2, <<>>, <<[text |-> "Missing required query matches",
                          queries |-> missing_queries]>>)
    ELSE Exit(0, <<[file |-> file, results |-> results]>>, <<>>)

\* lines 67-89 of main, results being what extract_json_paths returned or raised
QueryReport(file, results, queries, first, required) ==
    IF results.exc = "JsonPathError"
    THEN Exit(2, <<>>, <<[text |-> "Invalid query path", queries |-> <<>>]>>)
    ELSE IF Raised(results) THEN results
    ELSE RequiredReport(file, results.ret,
                        MissingQueries(results.ret, queries, first), required)

\* main(argv) with the parsed arguments json_file, --query, --first, --required
Main(file, d, queries, first, required) ==
    LET loaded == LoadJsonFile(file, d) IN
    IF loaded.exc = "FileNotFoundError"
    THEN Exit(2, <<>>, <<[text |-> "File not found", queries |-> <<>>]>>)
    ELSE IF loaded.exc = "JSONDecodeError"
    THEN Exit(2, <<>>, <<[text |-> "Invalid JSON in", queries |-> <<>>]>>)
    ELSE QueryReport(file, ExtractJsonPaths(loaded.ret, queries, first),
                     queries, first, required)

\* one run of the tool
CallMain(QL) ==
    /\ call = NoCall
    /\ \E qs \in QL, file \in {"ok", "missing", "invalid"}, f \in BOOLEAN, r \in BOOLEAN :
        /\ call' = [op |-> "main", query |-> <<>>, queries |-> qs, first |-> f,
                    required |-> r, file |-> file]
        /\ result' = Main(file, data, qs, f, r)
        /\ UNCHANGED <<data, scan, history, outside>>

CliQueries ==
    {ITEMS \o <<"[", "*", "]">>, ID, <<"[", "0", "]", ".">> \o ID,
     ITEMS \o <<".", ".">> \o ID, <<"[", SUP2, "]">>}

CliQueryLists == ListsUpTo(CliQueries, MaxQueries) \ {<<>>}

InitCli == InitWith(Docs)

NextCli == CallMain(CliQueryLists)

SpecCli == InitCli /\ [][NextCli]_vars

\* the queries of the run that have no match in the document
RECURSIVE NoMatchIn(_, _)
NoMatchIn(d, queries) ==
    IF queries = <<>> THEN <<>>
    ELSE (IF ExtractJsonPath(d, Head(queries)) = Return(<<>>) THEN <<Head(queries)>>
          ELSE <<>>) \o NoMatchIn(d, Tail(queries))

ZeroMatchQueries == NoMatchIn(data, call.queries)

\* C18: with --required, for a readable file and well-formed queries, the
\* tool exits with 2, writes the missing queries to stderr and prints no
\* result exactly when some query has zero matches, with and without
\* --first alike; when every query has a match it exits with 0 and prints
\* the results.
C18_RequiredExitsTwoIffNoMatch ==
    (call.op = "main" /\ call.required /\ call.file = "ok"
       /\ \A n \in 1..Len(call.queries) : ~Raised(ParseQuery(call.queries[n]))) =>
        IF ZeroMatchQueries # <<>>
        THEN result = Exit(2, <<>>, <<[text |-> "Missing required query matches",
                                       queries |-> ZeroMatchQueries]>>)
        ELSE /\ ~Raised(result)
             /\ result.ret.code = 0
             /\ result.ret.stderr = <<>>
             /\ result.ret.stdout =
                   <<[file |-> "ok",
                      results |-> ExtractJsonPaths(data, call.queries, call.first).ret]>>

\* the same for the runs without --first
RequiredWithoutFirst ==
    (call.op = "main" /\ ~call.first) => C18_RequiredExitsTwoIffNoMatch


---------------------------------------------------------------------------
(* C19: the standalone tool tools/json_information_extractor.py.  A token of
   parse_json_path is a str (a key) or an int (a list index): PyStr, PyNum. *)

ValueError(m) == Raise("ValueError", m)

\* index_buf.isdigit()
IsDigitStr(s) == s # <<>> /\ \A k \in 1..Len(s) : IsDigit(s[k])

\* PathLoop taking a "-" before the digits of an index
RECURSIVE PathLoopSigned(_, _, _, _, _, _)
PathLoopSigned(raw, n, tokens, part, index_mode, index_buf) ==
    IF n > Len(raw)
    THEN IF index_mode THEN ValueError("Unclosed list index in path")
         ELSE LET all == IF part # <<>> THEN Append(tokens, PyStr(part)) ELSE tokens IN
              IF all = <<>> THEN ValueError("path must contain at least one token")
              ELSE Return(all)
    ELSE LET char == raw[n] IN
         IF index_mode
         THEN IF char = "]"
              THEN LET digits == IF StartsWith(index_buf, "-") THEN Tail(index_buf)
                                 ELSE index_buf
                   IN  IF index_buf = <<>> \/ ~IsDigitStr(digits)
                       THEN ValueError("Invalid list index in path")
                       ELSE LET v == PyInt(index_buf) IN
                            IF Raised(v) THEN v
                            ELSE PathLoopSigned(raw, n + 1, Append(tokens, PyNum(v.ret)),
                                                part, FALSE, <<>>)
              ELSE PathLoopSigned(raw, n + 1, tokens, part, TRUE, Append(index_buf, char))
         ELSE IF char \in {".", "["}
         THEN PathLoopSigned(raw, n + 1,
                             IF part # <<>> THEN Append(tokens, PyStr(part)) ELSE tokens,
                             <<>>, char = "[", <<>>)
         ELSE IF char = "]" THEN ValueError("Unexpected ']' in path")
         ELSE PathLoopSigned(raw, n + 1, tokens, Append(part, char), FALSE, index_buf)

\* for char in raw: ..., from the n-th character, and the checks after the loop
RECURSIVE PathLoop(_, _, _, _, _, _)
PathLoop(raw, n, tokens, part, index_mode, index_buf) ==
    IF n > Len(raw)
    THEN IF index_mode THEN ValueError("Unclosed list index in path")
         ELSE LET all == IF part # <<>> THEN Append(tokens, PyStr(part)) ELSE tokens IN
              IF all = <<>> THEN ValueError("path must contain at least one token")
              ELSE Return(all)
    ELSE LET char == raw[n] IN
         IF index_mode
         THEN IF char = "]"
              THEN IF index_buf = <<>> \/ ~IsDigitStr(index_buf)
                   THEN ValueError("Invalid list index in path")
                   ELSE LET v == PyInt(index_buf) IN
                        IF Raised(v) THEN v
                        ELSE PathLoop(raw, n + 1, Append(tokens, PyNum(v.ret)),
                                      part, FALSE, <<>>)
              ELSE PathLoop(raw, n + 1, tokens, part, TRUE, Append(index_buf, char))
         ELSE IF char \in {".", "["}
         THEN PathLoop(raw, n + 1,
                       IF part # <<>> THEN Append(tokens, PyStr(part)) ELSE tokens,
                       <<>>, char = "[", <<>>)
         ELSE IF char = "]" THEN ValueError("Unexpected ']' in path")
         ELSE PathLoop(raw, n + 1, tokens, Append(part, char), FALSE, index_buf)

ParseJsonPath(path) ==
    LET raw == Strip(path) IN
    IF raw = <<>> THEN ValueError("path must be a non-empty string")
    ELSE PathLoop(raw, 1, <<>>, <<>>, FALSE, <<>>)

\* for token in tokens: ..., from the n-th token with current reached
RECURSIVE ValueLoop(_, _, _, _, _)
ValueLoop(tokens, n, current, default, strict) ==
    IF n > Len(tokens) THEN Return(current)
    ELSE LET token == tokens[n] IN
         IF token.kind = "int"
         THEN IF ~IsList(current) \/ token.ival < 0 \/ token.ival >= Len(current.elems)
              THEN IF strict THEN ValueError("Path not found") ELSE Return(default)
              ELSE ValueLoop(tokens, n + 1, ListGetItem(current, token.ival).ret,
                             default, strict)
         ELSE IF ~IsDict(current) \/ ~DictHas(current, token.sval)
         THEN IF strict THEN ValueError("Path not found") ELSE Return(default)
         ELSE ValueLoop(tokens, n + 1, DictGetItem(current, token.sval).ret,
                        default, strict)

ExtractJsonValue(payload, path, default, strict) ==
    LET tokens == ParseJsonPath(path) IN
    IF Raised(tokens) THEN tokens
    ELSE ValueLoop(tokens.ret, 1, payload, default, strict)

\* parse_json_path(p) for a path p of P
CallParseJsonPath(P) ==
    /\ call = NoCall
    /\ \E p \in P :
        /\ call' = [op |-> "parse_json_path", query |-> p, queries |-> <<>>, first |-> FALSE]
        /\ result' = ParseJsonPath(p)
        /\ UNCHANGED <<data, scan, history, outside>>

\* extract_json_value(data, p, default=d, strict=st) for a path p of P
CallExtractJsonValue(P, D) ==
    /\ call = NoCall
    /\ \E p \in P, d \in D, st \in BOOLEAN :
        /\ call' = [op |-> "extract_json_value", query |-> p, queries |-> <<>>,
                    first |-> FALSE, default |-> d, strict |-> st]
        /\ result' = ExtractJsonValue(data, p, d, st)
        /\ UNCHANGED <<data, scan, history, outside>>

MaxPathLen == 4

B == <<"b">>

PathAlphabet == {"a", ".", "[", "]", "0", "1", "-"}

ToolPaths ==
    ListsUpTo(PathAlphabet, MaxPathLen)
      \cup {<<"a", "[", "1", "]", ".", "b">>,
            <<"a", "[", "-", "1", "]">>,
            <<"a", "[", SUP2, "]">>,
            <<"a", "[", "a", "]", ".", "b">>,
            <<"a", "[", "1", "]", ".", "a">>,
            <<SPACE, "b", SPACE>>}

ToolPayloads ==
    {PyDict(<<Item(A, PyList(<<PyNum(10), PyDict(<<Item(B, PyNum(20))>>)>>)),
              Item(B, PyNone)>>),
     PyList(<<PyList(<<PyNum(10)>>), PyDict(<<Item(A, PyNum(10))>>)>>)}

ToolDefaults == {PyNone, PyStr(<<"(", "n", "o", "n", "e", ")">>)}

InitTool == InitWith(ToolPayloads)

NextTool ==
    \/ CallParseJsonPath(ToolPaths)
    \/ CallExtractJsonValue(ToolPaths, ToolDefaults)

SpecTool == InitTool /\ [][NextTool]_vars

\* the node the keys and indexes of tokens lead to from node, from the n-th
\* token on: found is FALSE when a key or a position is absent
RECURSIVE Walk(_, _, _)
Walk(node, tokens, n) ==
    IF n > Len(tokens) THEN [found |-> TRUE, value |-> node]
    ELSE LET token == tokens[n] IN
         IF token.kind = "str" /\ IsDict(node) /\ HasMember(node, token.sval)
         THEN Walk(Member(node, token.sval), tokens, n + 1)
         ELSE IF token.kind = "int" /\ IsList(node) /\ token.ival + 1 \in 1..Len(node.elems)
         THEN Walk(node.elems[token.ival + 1], tokens, n + 1)
         ELSE [found |-> FALSE, value |-> PyNone]

\* the path has a bracket, closed by the next "]", whose content is not one
\* or more decimal digits
HasNonDigitBracket(path) ==
    \E s \in 1..Len(path), e \in 1..Len(path) :
        /\ s < e /\ path[s] = "[" /\ path[e] = "]"
        /\ \A m \in (s + 1)..(e - 1) : path[m] # "]"
        /\ \/ e = s + 1
           \/ \E m \in (s + 1)..(e - 1) : path[m] \notin DecimalChars

\* C19: extract_json_value, for every payload and every path that parses:
\* when every token resolves the value at the path is returned in both
\* modes; otherwise strict=False returns the default without raising and
\* strict=True raises ValueError "Path not found".  A bracket whose content
\* is not all digits, a negative index included, is rejected by
\* parse_json_path with ValueError before any lookup.
C19_ValueDefaultOrPathNotFound ==
    /\ call.op = "extract_json_value" =>
          LET tokens == ParseJsonPath(call.query) IN
          IF Raised(tokens) THEN result = tokens
          ELSE LET w == Walk(data, tokens.ret, 1) IN
               IF w.found THEN result = Return(w.value)
               ELSE IF call.strict THEN result = ValueError("Path not found")
               ELSE result = Return(call.default)
    /\ (call.op \in {"parse_json_path", "extract_json_value"}
          /\ HasNonDigitBracket(call.query)) =>
          /\ result.exc = "ValueError"
          /\ result = ParseJsonPath(call.query)

\* a missing key after a list index: the default comes back
C19_Witness ==
    /\ call.op = "extract_json_value"
    /\ call.query = <<"a", "[", "1", "]", ".", "a">>
    /\ ~call.strict
    /\ call.default # PyNone
    /\ result = Return(call.default)

\* a negative index is rejected whatever the payload and the mode
C19_WitnessNegative ==
    /\ call.op = "extract_json_value"
    /\ call.query = <<"a", "[", "-", "1", "]">>
    /\ ~call.strict
    /\ result = ValueError("Invalid list index in path")


---------------------------------------------------------------------------
(* C20: RAGAgent (Agent-rag_retrieval/agent/rag_agent.py).  history is
   self._history, empty after __init__.  The knowledge base and the model
   client are outside the agent: what they answer to one ask is an input of
   that ask. *)

Message(role, content) == [role |-> role, content |-> content]

\* "I could not generate a response."
Fallback ==
    <<"I", " ", "c", "o", "u", "l", "d", " ", "n", "o", "t", " ", "g",
      "e", "n", "e", "r", "a", "t", "e", " ", "a", " ", "r", "e", "s",
      "p", "o", "n", "s", "e", ".">>

\* self._kb.query(question, n_results=n_context): chunks come back, or the
\* knowledge base raises
KbAnswers == {[kind |-> "chunks"], [kind |-> "raise"]}

\* self._client.chat.completions.create(...): the client raises, the response
\* has no choice, or the first choice has content text, None when none is TRUE
Content(text) == [kind |-> "content", none |-> FALSE, text |-> text]

NoContent == [kind |-> "content", none |-> TRUE, text |-> <<>>]

\* (response.choices[0].message.content or "").strip(), or the fallback
AssistantReply(answer) ==
    LET stripped == Strip(IF answer.none THEN <<>> ELSE answer.text) IN
    IF stripped = <<>> THEN Fallback ELSE stripped

\* Ask recording the question before the model client is called
AskQuestionFirst(h, question, n_context, kb, answer) ==
    IF Strip(question) = <<>>
    THEN [out |-> Raise("ValueError", "question must not be empty"), history |-> h]
    ELSE IF n_context <= 0
    THEN [out |-> Raise("ValueError", "n_context must be > 0"), history |-> h]
    ELSE IF kb.kind = "raise"
    THEN [out |-> Raise("KnowledgeBaseError", ""), history |-> h]
    ELSE LET asked == Append(h, Message("user", question)) IN
         IF answer.kind = "raise"
         THEN [out |-> Raise("APIError", ""), history |-> asked]
         ELSE IF answer.kind = "no choices"
         THEN [out |-> Raise("IndexError", "list index out of range"), history |-> asked]
         ELSE LET assistant_reply == AssistantReply(answer) IN
              [out |-> Return(assistant_reply),
               history |-> Append(asked, Message("assistant", assistant_reply))]

\* ask(question, n_context) with history h: what it returns or raises, and
\* the history after it
Ask(h, question, n_context, kb, answer) ==
    IF Strip(question) = <<>>
    THEN [out |-> Raise("ValueError", "question must not be empty"), history |-> h]
    ELSE IF n_context <= 0
    THEN [out |-> Raise("ValueError", "n_context must be > 0"), history |-> h]
    ELSE IF kb.kind = "raise"
    THEN [out |-> Raise("KnowledgeBaseError", ""), history |-> h]
    ELSE IF answer.kind = "raise"
    THEN [out |-> Raise("APIError", ""), history |-> h]
    ELSE IF answer.kind = "no choices"
    THEN [out |-> Raise("IndexError", "list index out of range"), history |-> h]
    ELSE LET assistant_reply == AssistantReply(answer) IN
         [out |-> Return(assistant_reply),
          history |-> h \o <<Message("user", question),
                             Message("assistant", assistant_reply)>>]

MaxAsks == 3

Questions == {<<"Q", "1">>, <<SPACE, "Q">>, <<SPACE, SPACE, SPACE>>, <<>>}

NContexts == {-1, 0, 2, 3}

ModelAnswers ==
    {[kind |-> "raise"], [kind |-> "no choices"], NoContent,
     Content(<<SPACE>>), Content(<<SPACE, "o", "k", SPACE>>)}

\* agent.ask(question, n_context)
CallAsk ==
    /\ \E question \in Questions, n_context \in NContexts,
          kb \in KbAnswers, answer \in ModelAnswers :
        LET a == Ask(history, question, n_context, kb, answer) IN
        /\ Len(a.history) <= 2 * MaxAsks
        /\ call' = [op |-> "ask", question |-> question, n_context |-> n_context]
        /\ result' = a.out
        /\ history' = a.history
    /\ UNCHANGED <<data, scan, outside>>

\* agent.reset_history()
CallResetHistory ==
    /\ call' = [op |-> "reset_history", question |-> <<>>, n_context |-> 0]
    /\ result' = Return(<<>>)
    /\ history' = <<>>
    /\ UNCHANGED <<data, scan, outside>>

InitAgent == InitWith({PyNone})

NextAgent == CallAsk \/ CallResetHistory

SpecAgent == InitAgent /\ [][NextAgent]_vars

\* C20: after any sequence of ask and reset_history calls the history is
\* the concatenation of the [user question, assistant reply] pairs of the
\* asks that succeeded since the last reset: an ask that returns appends its
\* pair, an ask that fails (blank question, n_context <= 0, an exception
\* from the knowledge base or the model client) leaves the history
\* unchanged, and reset_history empties it.
C20_HistoryIsSuccessfulAsks ==
    [][/\ (call'.op = "ask" /\ ~Raised(result')) =>
              history' = history \o <<Message("user", call'.question),
                                      Message("assistant", result'.ret)>>
       /\ (call'.op = "ask" /\ Raised(result')) => history' = history
       /\ call'.op = "reset_history" => history' = <<>>]_vars

\* the history is a sequence of user/assistant pairs
HistoryInPairs ==
    /\ Len(history) % 2 = 0
    /\ \A n \in 1..Len(history) :
           history[n].role = IF n % 2 = 1 THEN "user" ELSE "assistant"

\* an ask failed in the model client after an ask that succeeded: the
\* history still is the pair of the first
C20_Witness ==
    /\ call.op = "ask"
    /\ call.n_context = 3
    /\ result.exc = "APIError"
    /\ history = <<Message("user", <<"Q", "1">>), Message("assistant", <<"o", "k">>)>>

---------------------------------------------------------------------------
(* Config (Agents/agent/config.py): defaults, then the YAML file, then the
   environment.  The YAML file is held in files as the value yaml.safe_load
   reads from it; a path is an atom. *)

openai_api_key ==
    <<"o", "p", "e", "n", "a", "i", "_", "a", "p", "i", "_", "k", "e", "y">>

openai_model ==
    <<"o", "p", "e", "n", "a", "i", "_", "m", "o", "d", "e", "l">>

embedding_model ==
    <<"e", "m", "b", "e", "d", "d", "i", "n", "g", "_", "m", "o", "d",
      "e", "l">>

knowledge_base_path ==
    <<"k", "n", "o", "w", "l", "e", "d", "g", "e", "_", "b", "a", "s",
      "e", "_", "p", "a", "t", "h">>

system_message ==
    <<"s", "y", "s", "t", "e", "m", "_", "m", "e", "s", "s", "a", "g", "e">>

OPENAI_API_KEY ==
    <<"O", "P", "E", "N", "A", "I", "_", "A", "P", "I", "_", "K", "E", "Y">>

OPENAI_MODEL ==
    <<"O", "P", "E", "N", "A", "I", "_", "M", "O", "D", "E", "L">>

EMBEDDING_MODEL ==
    <<"E", "M", "B", "E", "D", "D", "I", "N", "G", "_", "M", "O", "D",
      "E", "L">>

KNOWLEDGE_BASE_PATH ==
    <<"K", "N", "O", "W", "L", "E", "D", "G", "E", "_", "B", "A", "S",
      "E", "_", "P", "A", "T", "H">>

SYSTEM_MESSAGE ==
    <<"S", "Y", "S", "T", "E", "M", "_", "M", "E", "S", "S", "A", "G", "E">>

\* _DEFAULTS, in the order of the dict
DEFAULTS ==
    PyDict(<<
      Item(openai_api_key,
        <<>>),
      Item(openai_model,
        <<"g", "p", "t", "-", "4", "o">>),
      Item(embedding_model,
        <<"t", "e", "x", "t", "-", "e", "m", "b", "e", "d", "d", "i", "n",
          "g", "-", "3", "-", "s", "m", "a", "l", "l">>),
      Item(knowledge_base_path,
        <<"k", "n", "o", "w", "l", "e", "d", "g", "e", "_", "b", "a", "s",
          "e", "/", "d", "o", "c", "u", "m", "e", "n", "t", "s">>),
      Item(system_message,
        <<"Y", "o", "u", SPACE, "a", "r", "e", SPACE, "a", SPACE, "h", "e",
          "l", "p", "f", "u", "l", SPACE, "A", "I", SPACE, "a", "s", "s", "i",
          "s", "t", "a", "n", "t", SPACE, "w", "i", "t", "h", SPACE, "a", "c",
          "c", "e", "s", "s", SPACE, "t", "o", SPACE, "a", SPACE, "k", "n",
          "o", "w", "l", "e", "d", "g", "e", SPACE, "b", "a", "s", "e", ".",
          SPACE, "W", "h", "e", "n", SPACE, "a", "n", "s", "w", "e", "r", "i",
          "n", "g", SPACE, "q", "u", "e", "s", "t", "i", "o", "n", "s", ",",
          SPACE, "u", "s", "e", SPACE, "t", "h", "e", SPACE, "p", "r", "o",
          "v", "i", "d", "e", "d", SPACE, "c", "o", "n", "t", "e", "x", "t",
          SPACE, "f", "r", "o", "m", SPACE, "t", "h", "e", SPACE, "k", "n",
          "o", "w", "l", "e", "d", "g", "e", SPACE, "b", "a", "s", "e", SPACE,
          "t", "o", SPACE, "g", "i", "v", "e", SPACE, "a", "c", "c", "u", "r",
          "a", "t", "e", ",", SPACE, "g", "r", "o", "u", "n", "d", "e", "d",
          SPACE, "r", "e", "s", "p", "o", "n", "s", "e", "s", ".", SPACE, "I",
          "f", SPACE, "t", "h", "e", SPACE, "c", "o", "n", "t", "e", "x", "t",
          SPACE, "d", "o", "e", "s", SPACE, "n", "o", "t", SPACE, "c", "o",
          "n", "t", "a", "i", "n", SPACE, "r", "e", "l", "e", "v", "a", "n",
          "t", SPACE, "i", "n", "f", "o", "r", "m", "a", "t", "i", "o", "n",
          ",", SPACE, "s", "a", "y", SPACE, "s", "o", SPACE, "c", "l", "e",
          "a", "r", "l", "y", SPACE, "r", "a", "t", "h", "e", "r", SPACE, "t",
          "h", "a", "n", SPACE, "g", "u", "e", "s", "s", "i", "n", "g", ".">>)>>)

\* _ENV_MAP, in the order of the dict
ENV_MAP ==
    PyDict(<<Item(openai_api_key, OPENAI_API_KEY),
             Item(openai_model, OPENAI_MODEL),
             Item(embedding_model, EMBEDDING_MODEL),
             Item(knowledge_base_path, KNOWLEDGE_BASE_PATH),
             Item(system_message, SYSTEM_MESSAGE)>>)

\* d.get(key): None for a missing key
DictGet(d, k) == IF DictHas(d, k) THEN DictGetItem(d, k).ret ELSE PyNone

\* bool(value) is false
Falsy(v) ==
    \/ v.kind = "none"
    \/ v.kind = "int" /\ v.ival = 0
    \/ v.kind = "str" /\ v.sval = <<>>
    \/ v.kind = "list" /\ v.elems = <<>>
    \/ v.kind = "dict" /\ v.items = <<>>

\* str(value) of a YAML scalar
Str(v) == IF v.kind = "str" THEN v.sval ELSE Decimal(v.ival)

\* config_path=None
NoPath == "None"

Directory == [kind |-> "dir"]

File(content) == [kind |-> "file", content |-> content]

Exists(fs, path) == path \in DOMAIN fs

IsFile(fs, path) == Exists(fs, path) /\ fs[path].kind = "file"

\* load_dotenv(): the assignments of .env become environment variables,
\* without replacing a variable that is set
LoadDotenv(env, fs) ==
    IF ~IsFile(fs, ".env") THEN env
    ELSE LET dotenv == fs[".env"].content IN
         [name \in DOMAIN env \cup DOMAIN dotenv |->
             IF name \in DOMAIN env THEN env[name] ELSE dotenv[name]]

\* the loop of _load_yaml_values over the keys of _DEFAULTS from the n-th on
RECURSIVE YamlLoop(_, _, _)
YamlLoop(d, payload, n) ==
    IF n > Len(DEFAULTS.items) THEN d
    ELSE LET key == DEFAULTS.items[n].key
             value == DictGet(payload, key)
         IN  IF value.kind = "none" THEN YamlLoop(d, payload, n + 1)
             ELSE LET normalized == Strip(Str(value)) IN
                  IF normalized # <<>>
                  THEN YamlLoop(DictSetItem(d, key, normalized), payload, n + 1)
                  ELSE YamlLoop(d, payload, n + 1)

\* Config._load_yaml_values on _data = d
LoadYamlValues(d, fs, config_path, explicit_config_path) ==
    IF ~Exists(fs, config_path)
    THEN IF explicit_config_path
         THEN Raise("FileNotFoundError", "Config file not found")
         ELSE Return(d)
    ELSE IF ~IsFile(fs, config_path)
    THEN Raise("ValueError", "Config path is not a file")
    ELSE LET loaded == fs[config_path].content
             payload == IF Falsy(loaded) THEN PyDict(<<>>) ELSE loaded
         IN  IF ~IsDict(payload)
             THEN Raise("ValueError", "Config file must contain a YAML mapping")
             ELSE Return(YamlLoop(d, payload, 1))

\* LoadEnvironmentValues taking a blank variable as a value
RECURSIVE LoadEnvironmentValuesBlank(_, _, _)
LoadEnvironmentValuesBlank(d, env, n) ==
    IF n > Len(ENV_MAP.items) THEN d
    ELSE LET key == ENV_MAP.items[n].key
             env_var == ENV_MAP.items[n].value
         IN  IF env_var \in DOMAIN env /\ env[env_var] # <<>>
             THEN LoadEnvironmentValuesBlank(DictSetItem(d, key, Strip(env[env_var])), env, n + 1)
             ELSE LoadEnvironmentValuesBlank(d, env, n + 1)

\* Config._load_environment_values on _data = d, from the n-th key on
RECURSIVE LoadEnvironmentValues(_, _, _)
LoadEnvironmentValues(d, env, n) ==
    IF n > Len(ENV_MAP.items) THEN d
    ELSE LET key == ENV_MAP.items[n].key
             env_var == ENV_MAP.items[n].value
         IN  IF env_var \in DOMAIN env /\ env[env_var] # <<>> /\ Strip(env[env_var]) # <<>>
             THEN LoadEnvironmentValues(DictSetItem(d, key, Strip(env[env_var])), env, n + 1)
             ELSE LoadEnvironmentValues(d, env, n + 1)

\* Config.__init__ after load_dotenv(): the outcome holds _data
ConfigInit(config_path, env_only, env, fs) ==
    LET explicit_config_path == config_path # NoPath
        path == IF config_path \notin {NoPath, ""} THEN config_path ELSE "config.yaml"
        yaml == IF env_only THEN Return(DEFAULTS)
                ELSE LoadYamlValues(DEFAULTS, fs, path, explicit_config_path)
    IN  IF Raised(yaml) THEN yaml
        ELSE Return(LoadEnvironmentValues(yaml.ret, env, 1))

\* Config(config_path=p, env_only=e)
CallConfig ==
    /\ call = NoCall
    /\ \E config_path \in {NoPath, "", "agent.yaml"}, env_only \in BOOLEAN :
        /\ call' = [op |-> "Config", query |-> <<>>, queries |-> <<>>, first |-> FALSE,
                    config_path |-> config_path, env_only |-> env_only]
        /\ environ' = LoadDotenv(environ, files)
        /\ result' = ConfigInit(config_path, env_only, environ', files)
        /\ UNCHANGED <<data, scan, history, files, memory, poll, requests, upload>>

\* at most MaxSet variables are set in the environment, at most MaxSet keys
\* in the YAML mapping
MaxSet == 1

\* the mappings from at most n elements of K to values of V
MapsUpTo(K, V, n) ==
    UNION {[S -> V] : S \in {T \in SUBSET K : Cardinality(T) <= n}}

EnvVars == {ENV_MAP.items[n].value : n \in 1..Len(ENV_MAP.items)}

EnvValues == {<<>>, <<SPACE>>, <<SPACE, "e", SPACE>>}

Environs == MapsUpTo(EnvVars, EnvValues, MaxSet)

ConfigKeys == {DEFAULTS.items[n].key : n \in 1..Len(DEFAULTS.items)}

YamlValues == {PyNone, PyStr(<<SPACE>>), PyStr(<<"y", SPACE>>), PyNum(0)}

\* a mapping lists its keys in the order of _DEFAULTS
RECURSIVE YamlItems(_, _)
YamlItems(m, n) ==
    IF n > Len(DEFAULTS.items) THEN <<>>
    ELSE LET key == DEFAULTS.items[n].key IN
         (IF key \in DOMAIN m THEN <<Item(key, m[key])>> ELSE <<>>) \o YamlItems(m, n + 1)

YamlMappings == {PyDict(YamlItems(m, 1)) : m \in MapsUpTo(ConfigKeys, YamlValues, MaxSet)}

\* what a YAML file can hold: nothing, a scalar, a list, a mapping
YamlContents == {PyNone, PyNum(7), PyList(<<>>), PyList(<<PyNum(7)>>)} \cup YamlMappings

Dotenvs == {[name \in {OPENAI_MODEL} |-> <<"d">>]}

\* the file systems: no file, or one path that is a directory or a YAML
\* file, with or without a .env beside it
ConfigFileSystems ==
    LET yamls == {NoFiles} \cup
                 {[path \in {p} |-> f] :
                     p \in {"config.yaml", "agent.yaml"},
                     f \in {Directory} \cup {File(c) : c \in YamlContents}}
    IN  yamls \cup
        {[path \in DOMAIN fs \cup {".env"} |->
             IF path = ".env" THEN File(e) ELSE fs[path]] : fs \in yamls, e \in Dotenvs}

InitConfig ==
    /\ data = PyNone
    /\ call = NoCall
    /\ result = Return(<<>>)
    /\ scan = NoScan
    /\ history = <<>>
    /\ environ \in Environs
    /\ files \in ConfigFileSystems
    /\ memory = NoMemory
    /\ poll = NoPoll
    /\ requests = <<>>
    /\ upload = NoUpload

NextConfig == CallConfig

SpecConfig == InitConfig /\ [][NextConfig]_vars

\* the environment variable of a key is set and not blank
EnvGives(key) ==
    LET env_var == DictGet(ENV_MAP, key) IN
    env_var \in DOMAIN environ /\ Strip(environ[env_var]) # <<>>

\* the path the constructor reads
PathOf(c) == IF c.config_path \in {NoPath, ""} THEN "config.yaml" ELSE c.config_path

\* the YAML file is used and holds a value for the key that is not blank
YamlGives(key) ==
    /\ ~call.env_only
    /\ IsFile(files, PathOf(call))
    /\ LET content == files[PathOf(call)].content IN
       /\ IsDict(content)
       /\ DictHas(content, key)
       /\ DictGet(content, key).kind # "none"
       /\ Strip(Str(DictGet(content, key))) # <<>>

\* C21: a Config that was constructed holds, for every key, the stripped
\* value of its environment variable if that is set and not blank, otherwise
\* the stripped value of the YAML file if the file is used and the value is
\* present and not blank, otherwise the built-in default; with env_only=True
\* the result does not depend on the YAML file.
C21_ConfigPrecedence ==
    (call.op = "Config" /\ ~Raised(result)) =>
        /\ \A key \in ConfigKeys :
               DictGet(result.ret, key) =
                   IF EnvGives(key)
                   THEN Strip(environ[DictGet(ENV_MAP, key)])
                   ELSE IF YamlGives(key)
                   THEN Strip(Str(DictGet(files[PathOf(call)].content, key)))
                   ELSE DictGet(DEFAULTS, key)
        /\ call.env_only =>
               result = ConfigInit(call.config_path, TRUE, environ, NoFiles)

\* a blank OPENAI_MODEL in the environment, "y " for the key in the YAML file
\* that is used: the YAML value wins over the default
C21_Witness ==
    /\ call.op = "Config"
    /\ ~call.env_only
    /\ OPENAI_MODEL \in DOMAIN environ
    /\ environ[OPENAI_MODEL] = <<SPACE>>
    /\ ~Raised(result)
    /\ YamlGives(openai_model)
    /\ DictGet(result.ret, openai_model) = <<"y">>

\* env_only=True beside a YAML file that sets the key: the default stays
C21_WitnessEnvOnly ==
    /\ call.op = "Config"
    /\ call.env_only
    /\ IsFile(files, PathOf(call))
    /\ IsDict(files[PathOf(call)].content)
    /\ DictGet(files[PathOf(call)].content, openai_api_key) = PyStr(<<"y", SPACE>>)
    /\ ~Raised(result)
    /\ DictGet(result.ret, openai_api_key) = <<>>

---------------------------------------------------------------------------
(* Fan-out: documents that nest arrays and objects of at most MaxFan
   members two levels deep, under queries with wildcards *)

MaxFan == 2

Cells == {PyNum(1), PyNum(2)}

\* the arrays of at most MaxFan elements of E and the objects {"a": e1, "b": e2}
Groups(E) ==
    {PyList(l) : l \in ListsUpTo(E, MaxFan)}
      \cup {PyDict(<<Item(A, e1), Item(B, e2)>>) : e1, e2 \in E}

Rows == Groups(Cells)

Tables == Groups(Rows)

FanDocs == Cells \cup Tables \cup {PyDict(<<Item(A, t)>>) : t \in Tables}

FieldNames == {A, B}

\* the query x.*.y
StarQuery(x, y) == x \o <<".", "*", ".">> \o y

\* the query x[*].y
BracketStarQuery(x, y) == x \o <<"[", "*", "]", ".">> \o y

FanQueries ==
    {<<"*">>, <<"[", "*", "]">>,
     <<"*", ".", "*">>, <<"[", "*", "]", "[", "*", "]">>,
     <<"a", ".", "*", ".", "*">>, <<"a", "[", "*", "]", "[", "*", "]">>,
     <<"*", ".", "b">>, <<"[", "*", "]", ".", "b">>,
     <<"a", "[", "*", "]", "[", "0", "]">>, <<"a", "[", "*", "]", "[", "-", "1", "]">>,
     <<"[", "*", "]", "[", "*", "]", "[", "*", "]">>, <<"*", ".", "*", ".", "*">>,
     <<"a", ".", "b", ".", "b">>, <<"[", "1", "]", "[", "*", "]">>,
     <<"a", "[", "*", "]", ".", "b", "[", "*", "]">>}
      \cup {StarQuery(x, y) : x, y \in FieldNames}
      \cup {BracketStarQuery(x, y) : x, y \in FieldNames}

InitFan == InitWith(FanDocs)

NextFan == CallExtractJsonPath(FanQueries)

SpecFan == InitFan /\ [][NextFan]_vars

\* the members of a node in its own order: the values of an object in
\* iteration order, the elements of an array
Children(node) ==
    IF IsDict(node) THEN DictValues(node)
    ELSE IF IsList(node) THEN node.elems
    ELSE <<>>

\* the token emits the c-th member of the node
Emits(node, token, c) ==
    IF token.kind = "field" THEN IsDict(node) /\ node.items[c].key = token.value
    ELSE IF token.kind = "index"
    THEN /\ IsList(node)
         /\ c = 1 + (IF token.value < 0 THEN Len(node.elems) + token.value ELSE token.value)
    ELSE TRUE

\* the ways through the document that the tokens open: one member position
\* for every token
RECURSIVE Ways(_, _)
Ways(node, tokens) ==
    IF tokens = <<>> THEN {<<>>}
    ELSE UNION {{<<c>> \o w : w \in Ways(Children(node)[c], Tail(tokens))} :
                   c \in {m \in 1..Len(Children(node)) : Emits(node, Head(tokens), m)}}

\* the node a way ends at
RECURSIVE EndOf(_, _)
EndOf(node, way) ==
    IF way = <<>> THEN node ELSE EndOf(Children(node)[Head(way)], Tail(way))

\* v comes before w in row-major order (ways of one length)
RECURSIVE Before(_, _)
Before(v, w) ==
    /\ v # <<>>
    /\ \/ Head(v) < Head(w)
       \/ Head(v) = Head(w) /\ Before(Tail(v), Tail(w))

\* the ways of W in row-major order
RECURSIVE RowMajor(_)
RowMajor(W) ==
    IF W = {} THEN <<>>
    ELSE LET first == CHOOSE v \in W : \A w \in W \ {v} : Before(v, w)
         IN  <<first>> \o RowMajor(W \ {first})

\* C22: the result of a well-formed query lists, in row-major order (the
\* order of the previous frontier's nodes, then each node's own order), the
\* node at the end of every way the tokens open through the document, one
\* entry per way: nothing is dropped as a duplicate, and a value that k ways
\* reach appears k times.
C22_FrontierIsConcatenation ==
    (call.op = "extract_json_path" /\ ~Raised(result)) =>
        LET ways == RowMajor(Ways(data, ParseQuery(call.query).ret)) IN
        result.ret = [n \in 1..Len(ways) |-> EndOf(data, ways[n])]

\* a[*][*] over two rows: the rows one after the other, the value 1 of both
\* rows twice
C22_Witness ==
    /\ call.op = "extract_json_path"
    /\ call.query = <<"a", "[", "*", "]", "[", "*", "]">>
    /\ data = PyDict(<<Item(A, PyList(<<PyList(<<PyNum(1), PyNum(2)>>),
                                        PyList(<<PyNum(2), PyNum(1)>>)>>))>>)
    /\ result = Return(<<PyNum(1), PyNum(2), PyNum(2), PyNum(1)>>)

---------------------------------------------------------------------------
(* The fan-out queries evaluated step by step *)

StepDocs == {PyDict(<<Item(A, t)>>) : t \in Tables}

StepQueries ==
    FanQueries \cup {<<"a", "[", SQUOTE, "b", SQUOTE, "]", "[", "*", "]">>,
                     <<"a", ".", "a", ".", "*", "[", "0", "]">>}

InitFanScan ==
    /\ data \in StepDocs
    /\ call \in {ScanCalled(q) : q \in StepQueries}
    /\ result = Return(<<>>)
    /\ scan = NoScan
    /\ history = <<>>
    /\ environ = NoEnviron
    /\ files = NoFiles
    /\ memory = NoMemory
    /\ poll = NoPoll
    /\ requests = <<>>
    /\ upload = NoUpload

SpecFanScan == InitFanScan /\ [][NextScan]_vars

\* a resolver without the early exit: every token is applied, from the k-th on
RECURSIVE ApplyAll(_, _, _)
ApplyAll(tokens, k, nodes) ==
    IF k > Len(tokens) THEN Return(nodes)
    ELSE LET r == ExtendLoop(nodes, 1, tokens[k], <<>>) IN
         IF Raised(r) THEN r ELSE ApplyAll(tokens, k + 1, r.ret)

\* the tokens the evaluation has not applied when it ends
TokensLeft == Len(scan.tokens) - scan.k

\* C23: stopping at the first empty frontier does not show in the result:
\* the list returned equals the list of a resolver that applies every token,
\* every token maps the empty frontier to the empty frontier, and no token
\* is applied to an empty frontier.
C23_ShortCircuitInvisible ==
    /\ scan.pc = "resolve" => scan.nodes # <<>>
    /\ scan.pc \in {"resolve", "done"} =>
           \A k \in 1..Len(scan.tokens) :
               ExtendLoop(<<>>, 1, scan.tokens[k], <<>>) = Return(<<>>)
    /\ scan.pc = "done" => result = ApplyAll(scan.tokens, 1, <<data>>)

\* a.b.b ends on an empty frontier with its last token not applied
C23_Witness ==
    /\ scan.pc = "done"
    /\ call.query = <<"a", ".", "b", ".", "b">>
    /\ scan.nodes = <<>>
    /\ TokensLeft = 1
    /\ result = Return(<<>>)

---------------------------------------------------------------------------
(* The bare wildcard, checked under SpecFan *)

\* the members called name of the nodes that are objects with that member,
\* in the order of the nodes
RECURSIVE MembersOf(_, _)
MembersOf(nodes, name) ==
    IF nodes = <<>> THEN <<>>
    ELSE (IF HasMember(Head(nodes), name) THEN <<Member(Head(nodes), name)>> ELSE <<>>)
           \o MembersOf(Tail(nodes), name)

\* C24: a bare "*" is an alias of "[*]": x.*.y has the outcome of x[*].y
\* and "*" the outcome of "[*]" on every document, for all field names x
\* and y; the wildcard fans out over all values of an object or all
\* elements of an array before the next token is matched.
C24_BareStarIsBracketStar ==
    call.op = "extract_json_path" =>
        /\ \A x, y \in FieldNames :
               call.query = StarQuery(x, y) =>
                   /\ result = ExtractJsonPath(data, BracketStarQuery(x, y))
                   /\ result = Return(IF HasMember(data, x)
                                      THEN MembersOf(Children(Member(data, x)), y)
                                      ELSE <<>>)
        /\ call.query = <<"*">> =>
               /\ result = ExtractJsonPath(data, <<"[", "*", "]">>)
               /\ result = Return(Children(data))

\* a.*.b over an array of two rows that are objects: the b of each row
C24_Witness ==
    /\ call.op = "extract_json_path"
    /\ call.query = StarQuery(A, B)
    /\ data = PyDict(<<Item(A, PyList(<<PyDict(<<Item(A, PyNum(1)), Item(B, PyNum(2))>>),
                                        PyDict(<<Item(A, PyNum(2)), Item(B, PyNum(1))>>)>>))>>)
    /\ result = Return(<<PyNum(2), PyNum(1)>>)

\* "*" over an object: its values
C24_WitnessObject ==
    /\ call.op = "extract_json_path"
    /\ call.query = <<"*">>
    /\ IsDict(data)
    /\ Len(result.ret) = 2

---------------------------------------------------------------------------
(* Separators, checked under SpecTok *)

\* C25: a bare segment (a field name or a bare "*") that is not the first
\* segment must be introduced by ".": a query in which a bare segment
\* directly follows a bracket or a "*" (a[0]b, [*]x, *a, **) is rejected
\* with JsonPathError.
C25_UnseparatedSegmentRaises ==
    (call.op \in {"_parse_query", "extract_json_path"}
       /\ call.query \in UnseparatedQueries) =>
        result.exc = "JsonPathError"

---------------------------------------------------------------------------
(* The absent marker, checked under Spec *)

\* C26: with first=True the entry of a query is the absent marker (None) if
\* and only if the query has no match, so a query whose first match is a
\* JSON null can be told from a query that matched nothing.
C26_AbsentMarkerIffNoMatch ==
    (call.op = "extract_json_paths" /\ call.first /\ ~Raised(result)) =>
        \A n \in 1..Len(call.queries) :
            LET q == call.queries[n] IN
            (Entry(result.ret, q) = PyNone) <=> (ExtractJsonPath(data, q).ret = <<>>)

---------------------------------------------------------------------------
(* Whitespace, checked under SpecTok *)

IsBlank(s) == \A n \in 1..Len(s) : s[n] \in Whitespace

\* the number of whitespace characters of a string
Blanks(s) == Cardinality({n \in 1..Len(s) : s[n] \in Whitespace})

\* the number of whitespace characters inside the field names and keys of
\* the tokens
RECURSIVE TokenBlanks(_)
TokenBlanks(tokens) ==
    IF tokens = <<>> THEN 0
    ELSE (IF Head(tokens).kind = "field" THEN Blanks(Head(tokens).value) ELSE 0)
           + TokenBlanks(Tail(tokens))

\* the function of the call, applied to another query
SameCall(q) ==
    IF call.op = "_parse_query" THEN ParseQuery(q) ELSE ExtractJsonPath(data, q)

\* C27: whitespace around a whole query is ignored: however the query of a
\* call splits into padding, a query Q and padding, the outcome is that of Q
\* on the same document; a query made only of whitespace is rejected as
\* empty; whitespace elsewhere is not removed: when Q starts and ends on
\* another character, each whitespace character of Q is part of a field
\* name or key of the tokens.
C27_PaddingIgnored ==
    call.op \in {"_parse_query", "extract_json_path"} =>
        /\ \A i \in 0..Len(call.query) : \A j \in i..Len(call.query) :
               (IsBlank(Slice(call.query, 0, i))
                  /\ IsBlank(Slice(call.query, j, Len(call.query)))) =>
                   /\ result = SameCall(Slice(call.query, i, j))
                   /\ (call.op = "_parse_query" /\ ~Raised(result) /\ i < j
                         /\ At(call.query, i) \notin Whitespace
                         /\ At(call.query, j - 1) \notin Whitespace) =>
                          TokenBlanks(result.ret) = Blanks(Slice(call.query, i, j))
        /\ IsBlank(call.query) => result = JsonPathError("Query cannot be empty.")

\* " a " on {"a": [10, 20], ...}: the match of "a"
C27_Witness ==
    /\ call.op = "extract_json_path"
    /\ call.query = <<SPACE, "a", SPACE>>
    /\ IsDict(data)
    /\ result = Return(<<PyList(<<PyNum(10), PyNum(20)>>)>>)

\* "$ a": the blank after the root marker stays in the field name
C27_WitnessInner ==
    /\ call.op = "_parse_query"
    /\ call.query = <<"$", SPACE, "a">>
    /\ result = Return(<<FieldToken(<<SPACE, "a">>)>>)

\* a query of blanks only
C27_WitnessBlank ==
    /\ call.op = "extract_json_path"
    /\ call.query = <<SPACE, SPACE>>
    /\ result.exc = "JsonPathError"

---------------------------------------------------------------------------
(* Memory (agent_tools/simple_memory.py): the entries of the object and the
   JSON file they are written to after every change *)

\* the text json.dumps writes for a list of entries, and a text of blanks
JsonText(entries) == [text |-> "json", value |-> entries]

BlankText == [text |-> "blank", value |-> <<>>]

\* s[start:]
SliceFrom(s, start) ==
    LET from == IF start < 0
                THEN (IF Len(s) + start < 0 THEN 0 ELSE Len(s) + start)
                ELSE (IF start > Len(s) THEN Len(s) ELSE start)
    IN  SubSeq(s, from + 1, Len(s))

\* Memory.load: [] for a blank file, else json.loads of its text
Load(fs, path) ==
    IF fs[path].content.text = "blank" THEN <<>> ELSE fs[path].content.value

\* Memory._write
Write(fs, path, entries) ==
    [p \in DOMAIN fs \cup {path} |-> IF p = path THEN File(JsonText(entries)) ELSE fs[p]]

\* Memory(path, max_entries)
MemoryInit(path, max_entries) ==
    /\ ~memory.made
    /\ memory' = [made |-> TRUE, path |-> path, max |-> max_entries,
                  entries |-> IF Exists(files, path) THEN Load(files, path) ELSE <<>>]
    /\ call' = [op |-> "Memory", query |-> <<>>, queries |-> <<>>, first |-> FALSE]
    /\ result' = Return(<<>>)
    /\ UNCHANGED <<data, scan, history, environ, files, poll, requests, upload>>

\* Memory.save(role, content) at the time now
Save(role, content, now) ==
    /\ memory.made
    /\ LET entry == [role |-> role, content |-> content, timestamp |-> now]
           appended == Append(memory.entries, entry)
           entries == IF Len(appended) > memory.max
                      THEN SliceFrom(appended, 0 - memory.max)
                      ELSE appended
       IN  /\ memory' = [memory EXCEPT !.entries = entries]
           /\ files' = Write(files, memory.path, entries)
           /\ call' = [op |-> "save", query |-> <<>>, queries |-> <<>>, first |-> FALSE]
           /\ result' = Return(entry)
    /\ UNCHANGED <<data, scan, history, environ, poll, requests, upload>>

\* Memory.clear()
Clear ==
    /\ memory.made
    /\ memory' = [memory EXCEPT !.entries = <<>>]
    /\ files' = Write(files, memory.path, <<>>)
    /\ call' = [op |-> "clear", query |-> <<>>, queries |-> <<>>, first |-> FALSE]
    /\ result' = Return(<<>>)
    /\ UNCHANGED <<data, scan, history, environ, poll, requests, upload>>

\* max_entries is at most MaxEntries; a memory file holds at most MaxEntries
\* entries before the object is made, and no save is made once the object
\* holds more than MaxSaved entries
MaxEntries == 2

MaxSaved == 3

Roles == {"user", "assistant"}

Contents == {"hi", "ok"}

Times == 1..2

StoredEntries == {[role |-> r, content |-> "old", timestamp |-> 0] : r \in Roles}

MemoryFileSystems ==
    {NoFiles}
      \cup {[p \in {"memory.json"} |-> File(c)] :
               c \in {BlankText} \cup {JsonText(l) : l \in ListsUpTo(StoredEntries, MaxEntries)}}

InitMemory ==
    /\ data = PyNone
    /\ call = NoCall
    /\ result = Return(<<>>)
    /\ scan = NoScan
    /\ history = <<>>
    /\ environ = NoEnviron
    /\ files \in MemoryFileSystems
    /\ memory = NoMemory
    /\ poll = NoPoll
    /\ requests = <<>>
    /\ upload = NoUpload

NextMemory ==
    \/ \E max_entries \in 0..MaxEntries : MemoryInit("memory.json", max_entries)
    \/ \E role \in Roles, content \in Contents, now \in Times :
           Len(memory.entries) <= MaxSaved /\ Save(role, content, now)
    \/ Clear

SpecMemory == InitMemory /\ [][NextMemory]_vars

\* the n last elements of s, all of s when it has fewer
Newest(s, n) == IF Len(s) > n THEN SubSeq(s, Len(s) - n + 1, Len(s)) ELSE s

\* C28: for every max_entries >= 0, after every save the history holds at
\* most max_entries entries, the most recently saved ones in save order
\* (entries loaded from the file count as saved before), and clear leaves
\* the history empty.
C28_HistoryHoldsNewest ==
    [][/\ call'.op = "save" =>
              /\ Len(memory'.entries) <= memory.max
              /\ memory'.entries = Newest(Append(memory.entries, result'.ret), memory.max)
       /\ call'.op = "clear" => memory'.entries = <<>>]_vars

\* the same for max_entries >= 1
C28_HistoryHoldsNewestPositive ==
    [][/\ (call'.op = "save" /\ memory.max >= 1) =>
              /\ Len(memory'.entries) <= memory.max
              /\ memory'.entries = Newest(Append(memory.entries, result'.ret), memory.max)
       /\ call'.op = "clear" => memory'.entries = <<>>]_vars

---------------------------------------------------------------------------
(* The polling trigger (comms/telegram.py).  Time is counted in ticks of
   half a second; poll.now is time.time().  An update is its update_id (None
   when it is missing or no int) and the set of MESSAGE_KEYS under which it
   holds a dict; requests lists the getUpdates requests sent. *)

MESSAGE_KEYS == <<"message", "edited_message", "channel_post", "edited_channel_post">>

Update(update_id, keys) == [update_id |-> update_id, keys |-> keys]

Max(a, b) == IF a >= b THEN a ELSE b

\* _latest_update_id: the greatest int update_id, None when there is none
RECURSIVE LatestUpdateId(_)
LatestUpdateId(updates) ==
    IF updates = <<>> THEN PyNone
    ELSE LET rest == LatestUpdateId(Tail(updates))
             id == Head(updates).update_id
         IN  IF id.kind # "int" THEN rest
             ELSE IF rest.kind = "int" /\ rest.ival >= id.ival THEN rest
             ELSE id

\* the loop of _normalize_message_update over MESSAGE_KEYS from the n-th key
RECURSIVE MessageKey(_, _)
MessageKey(update, n) ==
    IF n > Len(MESSAGE_KEYS) THEN "none"
    ELSE IF MESSAGE_KEYS[n] \in update.keys THEN MESSAGE_KEYS[n]
    ELSE MessageKey(update, n + 1)

\* _normalize_message_update: the payload, None without a message
NormalizeMessageUpdate(update) ==
    LET message_key == MessageKey(update, 1) IN
    IF message_key = "none" THEN PyNone
    ELSE [kind |-> "message", update_id |-> update.update_id,
          message_type |-> message_key, raw |-> update]

\* LatestMessageJson passing the update of the baseline itself
RECURSIVE LatestMessageJsonFromBaseline(_, _, _)
LatestMessageJsonFromBaseline(updates, baseline_update_id, n) ==
    IF n < 1 THEN PyNone
    ELSE LET update_id == updates[n].update_id IN
         IF baseline_update_id.kind # "none"
              /\ (update_id.kind # "int" \/ update_id.ival < baseline_update_id.ival)
         THEN LatestMessageJsonFromBaseline(updates, baseline_update_id, n - 1)
         ELSE LET normalized == NormalizeMessageUpdate(updates[n]) IN
              IF normalized.kind # "none" THEN normalized
              ELSE LatestMessageJsonFromBaseline(updates, baseline_update_id, n - 1)

\* _latest_message_json: for update in reversed(updates), from the n-th down
RECURSIVE LatestMessageJson(_, _, _)
LatestMessageJson(updates, baseline_update_id, n) ==
    IF n < 1 THEN PyNone
    ELSE LET update_id == updates[n].update_id IN
         IF baseline_update_id.kind # "none"
              /\ (update_id.kind # "int" \/ update_id.ival <= baseline_update_id.ival)
         THEN LatestMessageJson(updates, baseline_update_id, n - 1)
         ELSE LET normalized == NormalizeMessageUpdate(updates[n]) IN
              IF normalized.kind # "none" THEN normalized
              ELSE LatestMessageJson(updates, baseline_update_id, n - 1)

\* the shortest sleep, max(poll_interval, 0.5), and the long poll of the loop
MinSleep == 1

LongPoll == 15

GetUpdates(poll_timeout_seconds) ==
    [method |-> "getUpdates", timeout |-> poll_timeout_seconds]

\* trigger(config), lines 127-135: the configuration is read
TriggerCall(include_existing, baseline_update_id, poll_interval, timeout_seconds) ==
    /\ poll.pc = "idle"
    /\ LET first == baseline_update_id.kind = "none" /\ ~include_existing IN
       poll' = [poll EXCEPT !.pc = IF first THEN "baseline" ELSE "loop",
                            !.include_existing = include_existing,
                            !.baseline_update_id = baseline_update_id,
                            !.poll_interval = poll_interval,
                            !.timeout_seconds = timeout_seconds,
                            !.deadline = IF first THEN 0
                                         ELSE poll.now + Max(timeout_seconds, 0)]
    /\ call' = [op |-> "trigger", query |-> <<>>, queries |-> <<>>, first |-> FALSE,
                include_existing |-> include_existing,
                baseline_update_id |-> baseline_update_id,
                timeout_seconds |-> timeout_seconds]
    /\ UNCHANGED <<data, result, scan, history, environ, files, memory, requests, upload>>

\* telegram_get_updates sends its request: lines 136 and 141
SendGetUpdates ==
    /\ poll.pc \in {"baseline", "loop"}
    /\ requests' = Append(requests,
                          GetUpdates(IF poll.pc = "baseline" THEN 0 ELSE LongPoll))
    /\ poll' = [poll EXCEPT !.pc = IF poll.pc = "baseline" THEN "baseline sent"
                                   ELSE "loop sent"]
    /\ UNCHANGED <<data, call, result, scan, history, environ, files, memory, upload>>

\* the API answers with a batch of updates after some time
ApiAnswers(batches) ==
    /\ poll.pc \in {"baseline sent", "loop sent"}
    /\ \E updates \in batches, took \in 0..1 :
           poll' = [poll EXCEPT !.pc = IF poll.pc = "baseline sent"
                                       THEN "baseline got" ELSE "loop got",
                                !.updates = updates,
                                !.now = @ + took]
    /\ UNCHANGED <<data, call, result, scan, history, environ, files, memory, requests, upload>>

\* the request fails: _api_call raises RuntimeError and so does trigger
ApiFails ==
    /\ poll.pc \in {"baseline sent", "loop sent"}
    /\ poll' = [poll EXCEPT !.pc = "raised"]
    /\ result' = Raise("RuntimeError", "Telegram API request failed for getUpdates")
    /\ UNCHANGED <<data, call, scan, history, environ, files, memory, requests, upload>>

\* lines 137-139: the baseline of the initial poll, then the deadline
TriggerBaseline ==
    /\ poll.pc = "baseline got"
    /\ poll' = [poll EXCEPT !.pc = "loop",
                            !.baseline_update_id = LatestUpdateId(poll.updates),
                            !.deadline = poll.now + Max(poll.timeout_seconds, 0),
                            !.updates = <<>>]
    /\ UNCHANGED <<data, call, result, scan, history, environ, files, memory, requests, upload>>

\* lines 142-151: the updates of one poll
TriggerLoop ==
    /\ poll.pc = "loop got"
    /\ LET updates == poll.updates
           normalized ==
               IF updates # <<>>
               THEN LatestMessageJson(updates,
                                      IF poll.include_existing THEN PyNone
                                      ELSE poll.baseline_update_id,
                                      Len(updates))
               ELSE PyNone
       IN  IF normalized.kind # "none"
           THEN /\ poll' = [poll EXCEPT !.pc = "returned", !.updates = <<>>]
                /\ result' = Return(normalized)
           ELSE IF poll.timeout_seconds <= 0 \/ poll.now >= poll.deadline
           THEN /\ poll' = [poll EXCEPT !.pc = "returned", !.updates = <<>>]
                /\ result' = Return(PyNone)
           ELSE /\ poll' = [poll EXCEPT !.pc = "sleep", !.updates = <<>>]
                /\ UNCHANGED result
    /\ UNCHANGED <<data, call, scan, history, environ, files, memory, requests, upload>>

\* line 153: time.sleep(max(poll_interval, 0.5))
TriggerSleep ==
    /\ poll.pc = "sleep"
    /\ poll' = [poll EXCEPT !.pc = "loop", !.now = @ + Max(poll.poll_interval, MinSleep)]
    /\ UNCHANGED <<data, call, result, scan, history, environ, files, memory, requests, upload>>

\* timeout_seconds of at most MaxTimeout ticks, batches of at most MaxBatch
\* updates
MaxTimeout == 2

MaxBatch == 2

UpdateIds == {PyNone, PyNum(1), PyNum(2), PyNum(3)}

Updates ==
    {Update(id, keys) : id \in UpdateIds,
                        keys \in {{}, {"message"}, {"channel_post", "edited_message"}}}

Batches == ListsUpTo(Updates, MaxBatch)

InitTrigger == InitWith({PyNone})

NextTrigger ==
    \/ \E include_existing \in BOOLEAN, baseline_update_id \in {PyNone, PyNum(1), PyNum(2)},
          poll_interval \in {0, 2}, timeout_seconds \in (0 - 1)..MaxTimeout :
           TriggerCall(include_existing, baseline_update_id, poll_interval, timeout_seconds)
    \/ SendGetUpdates
    \/ ApiAnswers(Batches)
    \/ ApiFails
    \/ TriggerBaseline
    \/ TriggerLoop
    \/ TriggerSleep

SpecTrigger == InitTrigger /\ [][NextTrigger]_vars

\* the update ids of a batch that are ints
IntIds(updates) ==
    {updates[n].update_id.ival : n \in {m \in 1..Len(updates) : updates[m].update_id.kind = "int"}}

\* the batch holds a message that is newer than the baseline in force
Qualifies(updates, baseline) ==
    \E n \in 1..Len(updates) :
        /\ updates[n].keys # {}
        /\ baseline.kind = "int" =>
               /\ updates[n].update_id.kind = "int"
               /\ updates[n].update_id.ival > baseline.ival

\* the getUpdates requests of the polling loop
LoopPolls == Cardinality({n \in 1..Len(requests) : requests[n].timeout = LongPoll})

\* C29: with include_existing false the trigger never returns a message
\* whose update_id is at or below the baseline, the caller's
\* baseline_update_id or else the highest update_id of the initial poll,
\* whatever batches the API returns; it returns None only after a poll of
\* the loop that held no qualifying message, with the deadline passed or
\* timeout_seconds <= 0, and then after exactly one poll of the loop; and
\* it never returns before a poll was made.
C29_TriggerReturnsNewMessages ==
    [][/\ (poll.pc = "idle" /\ call'.baseline_update_id.kind = "int") =>
              poll'.baseline_update_id = call'.baseline_update_id
       /\ poll.pc = "baseline got" =>
              /\ call.baseline_update_id.kind = "none"
              /\ \A id \in IntIds(poll.updates) : id <= poll'.baseline_update_id.ival
              /\ poll'.baseline_update_id.kind = "int" =>
                     poll'.baseline_update_id.ival \in IntIds(poll.updates)
       /\ poll'.pc = "returned" =>
              /\ poll.pc = "loop got"
              /\ LoopPolls >= 1
              /\ (result'.ret.kind = "message" /\ ~call.include_existing
                    /\ poll.baseline_update_id.kind = "int") =>
                     /\ result'.ret.update_id.kind = "int"
                     /\ result'.ret.update_id.ival > poll.baseline_update_id.ival
              /\ result'.ret.kind = "none" =>
                     /\ ~Qualifies(poll.updates,
                                   IF call.include_existing THEN PyNone
                                   ELSE poll.baseline_update_id)
                     /\ call.timeout_seconds <= 0 \/ poll.now >= poll.deadline
              /\ call.timeout_seconds <= 0 => LoopPolls = 1]_vars

\* the initial poll saw update 2; a later poll of the loop holds update 2
\* again and the message of update 3, which is returned
C29_Witness ==
    /\ poll.pc = "returned"
    /\ ~call.include_existing
    /\ call.baseline_update_id = PyNone
    /\ poll.baseline_update_id = PyNum(2)
    /\ result.ret.kind = "message"
    /\ result.ret.update_id = PyNum(3)
    /\ LoopPolls = 2

\* None after the deadline: three polls of the loop found nothing newer
\* than the caller's baseline
C29_WitnessNone ==
    /\ poll.pc = "returned"
    /\ call.baseline_update_id = PyNum(2)
    /\ ~call.include_existing
    /\ result = Return(PyNone)
    /\ LoopPolls = 3
    /\ poll.now >= poll.deadline

---------------------------------------------------------------------------
(* The chunk upload (src/pinecone.py): validation, the embedding call, then
   the requests to the index.  chunked_data is given as its parts around the
   separator; the text of a chunk stands for its digest and its embedding. *)

PINECONE_API_KEY ==
    <<"P", "I", "N", "E", "C", "O", "N", "E", "_", "A", "P", "I", "_",
      "K", "E", "Y">>

DEFAULT_CHUNK_SEPARATOR ==
    <<"-", "-", "-", "-", "K", "B", SPACE, "C", "H", "U", "N", "K", "-",
      "-", "-", "-">>

small == <<"s", "m", "a", "l", "l">>

large == <<"l", "a", "r", "g", "e">>

HTTPS == <<"h", "t", "t", "p", "s", ":", "/", "/">>

HTTP == <<"h", "t", "t", "p", ":", "/", "/">>

\* EMBEDDING_MODELS
EMBEDDING_MODELS ==
    PyDict(<<Item(small, "text-embedding-3-small"), Item(large, "text-embedding-3-large")>>)

\* str.lower(), on the letters the sizes are written with
Lower(s) ==
    [n \in 1..Len(s) |-> IF s[n] = "L" THEN "l" ELSE IF s[n] = "S" THEN "s" ELSE s[n]]

\* s.startswith(prefix)
HasPrefix(s, prefix) == Len(s) >= Len(prefix) /\ SubSeq(s, 1, Len(prefix)) = prefix

\* s.rstrip("/")
RECURSIVE RStripSlash(_)
RStripSlash(s) ==
    IF s # <<>> /\ s[Len(s)] = "/" THEN RStripSlash(SubSeq(s, 1, Len(s) - 1)) ELSE s

\* _resolve_api_key; direct_value = <<>> stands for None and for ""
ResolveApiKey(direct_value, env, env_var, error_message) ==
    LET value == Strip(IF direct_value # <<>> THEN direct_value
                       ELSE IF env_var \in DOMAIN env THEN env[env_var]
                       ELSE <<>>)
    IN  IF value = <<>> THEN ValueError(error_message) ELSE Return(value)

\* _resolve_embedding_model
ResolveEmbeddingModel(embedding_size) ==
    LET normalized == Lower(Strip(embedding_size)) IN
    IF ~DictHas(EMBEDDING_MODELS, normalized)
    THEN ValueError("embedding_size must be one of: large, small")
    ELSE DictGetItem(EMBEDDING_MODELS, normalized)

\* _normalize_index_host
NormalizeIndexHost(index_host) ==
    LET cleaned == Strip(index_host) IN
    IF cleaned = <<>> THEN ValueError("index_host must be a non-empty string")
    ELSE Return(RStripSlash(IF HasPrefix(cleaned, HTTPS) \/ HasPrefix(cleaned, HTTP)
                            THEN cleaned
                            ELSE HTTPS \o cleaned))

\* [chunk for chunk in chunks if chunk] over the stripped parts
RECURSIVE Filtered(_)
Filtered(parts) ==
    IF parts = <<>> THEN <<>>
    ELSE (IF Strip(Head(parts)) # <<>> THEN <<Strip(Head(parts))>> ELSE <<>>)
           \o Filtered(Tail(parts))

\* _split_chunks; the text is blank when its only part is
SplitChunks(parts, chunk_separator) ==
    IF Len(parts) = 1 /\ Strip(parts[1]) = <<>>
    THEN ValueError("chunked_data must be a non-empty string")
    ELSE IF Strip(chunk_separator) = <<>>
    THEN ValueError("chunk_separator must be a non-empty string")
    ELSE IF Filtered(parts) = <<>> THEN ValueError("No chunks found in chunked_data")
    ELSE Return(Filtered(parts))

\* _build_vector_id
BuildVectorId(source_name, index, chunk) ==
    [source |-> source_name, index |-> index, digest |-> chunk]

\* the loop of _build_vectors from the chunk of position index (0-based) on
RECURSIVE BuildLoop(_, _, _, _)
BuildLoop(chunks, embeddings, source_name, index) ==
    IF index >= Len(chunks) THEN <<>>
    ELSE <<[id |-> BuildVectorId(source_name, index, At(chunks, index)),
            values |-> At(embeddings, index),
            metadata |-> [text |-> At(chunks, index), chunk_index |-> index,
                          source |-> source_name]]>>
           \o BuildLoop(chunks, embeddings, source_name, index + 1)

\* _build_vectors
BuildVectors(chunks, embeddings, source_name) ==
    IF Len(chunks) # Len(embeddings)
    THEN Raise("RuntimeError", "Embedding count does not match chunk count")
    ELSE Return(BuildLoop(chunks, embeddings, source_name, 0))

\* the rows of an embeddings response, sorted by row.index
RECURSIVE SortedRows(_)
SortedRows(rows) ==
    IF rows = {} THEN <<>>
    ELSE LET first == CHOOSE r \in rows : \A o \in rows : r.index <= o.index
         IN  <<first.embedding>> \o SortedRows(rows \ {first})

\* the request of _delete_all_vectors and of one pass of _upsert_vectors
DeleteRequest(index_host, namespace, pinecone_api_key) ==
    [url |-> [host |-> index_host, path |-> "/vectors/delete"], key |-> pinecone_api_key,
     payload |-> [namespace |-> namespace, deleteAll |-> TRUE, vectors |-> <<>>]]

UpsertRequest(index_host, namespace, pinecone_api_key, batch) ==
    [url |-> [host |-> index_host, path |-> "/vectors/upsert"], key |-> pinecone_api_key,
     payload |-> [namespace |-> namespace, deleteAll |-> FALSE, vectors |-> batch]]

\* UploadCall sending the delete-all request before it validates
UploadCallDeletesFirst(parts, index_host, embedding_size, replace_existing, chunk_separator, pinecone_api_key, openai_api_key_value, batch_size) ==
    /\ upload.pc = "idle"
    /\ call' = [op |-> "upload_chunked_data_to_pinecone", query |-> <<>>, queries |-> <<>>,
                first |-> FALSE, parts |-> parts, replace_existing |-> replace_existing,
                batch_size |-> batch_size]
    /\ requests' = IF replace_existing
                   THEN <<DeleteRequest(index_host, "sales", pinecone_api_key)>>
                   ELSE <<>>
    /\ LET pinecone_key == ResolveApiKey(pinecone_api_key, environ, PINECONE_API_KEY,
                                         "PINECONE_API_KEY is required.")
           openai_key == ResolveApiKey(openai_api_key_value, environ, OPENAI_API_KEY,
                                       "OPENAI_API_KEY is required.")
           model == ResolveEmbeddingModel(embedding_size)
           host == NormalizeIndexHost(index_host)
           chunks == SplitChunks(parts, chunk_separator)
           failed == IF batch_size < 1 THEN ValueError("batch_size must be >= 1")
                     ELSE IF Raised(pinecone_key) THEN pinecone_key
                     ELSE IF Raised(openai_key) THEN openai_key
                     ELSE IF Raised(model) THEN model
                     ELSE IF Raised(host) THEN host
                     ELSE chunks
       IN  IF Raised(failed)
           THEN /\ result' = failed
                /\ upload' = [upload EXCEPT !.pc = "raised"]
           ELSE /\ upload' = [upload EXCEPT !.pc = "embed", !.pinecone_key = pinecone_key.ret,
                                            !.host = host.ret, !.model = model.ret,
                                            !.chunks = chunks.ret]
                /\ UNCHANGED result
    /\ UNCHANGED <<data, scan, history, environ, files, memory, poll>>

\* upload_chunked_data_to_pinecone(...), lines 46-61: the validations
UploadCall(parts, index_host, embedding_size, replace_existing, chunk_separator, pinecone_api_key, openai_api_key_value, batch_size) ==
    /\ upload.pc = "idle"
    /\ call' = [op |-> "upload_chunked_data_to_pinecone", query |-> <<>>, queries |-> <<>>,
                first |-> FALSE, parts |-> parts, replace_existing |-> replace_existing,
                batch_size |-> batch_size]
    /\ LET pinecone_key == ResolveApiKey(pinecone_api_key, environ, PINECONE_API_KEY,
                                         "PINECONE_API_KEY is required.")
           openai_key == ResolveApiKey(openai_api_key_value, environ, OPENAI_API_KEY,
                                       "OPENAI_API_KEY is required.")
           model == ResolveEmbeddingModel(embedding_size)
           host == NormalizeIndexHost(index_host)
           chunks == SplitChunks(parts, chunk_separator)
           failed == IF batch_size < 1 THEN ValueError("batch_size must be >= 1")
                     ELSE IF Raised(pinecone_key) THEN pinecone_key
                     ELSE IF Raised(openai_key) THEN openai_key
                     ELSE IF Raised(model) THEN model
                     ELSE IF Raised(host) THEN host
                     ELSE chunks
       IN  IF Raised(failed)
           THEN /\ result' = failed
                /\ upload' = [upload EXCEPT !.pc = "raised"]
           ELSE /\ upload' = [upload EXCEPT !.pc = "embed", !.pinecone_key = pinecone_key.ret,
                                            !.host = host.ret, !.model = model.ret,
                                            !.chunks = chunks.ret]
                /\ UNCHANGED result
    /\ UNCHANGED <<data, scan, history, environ, files, memory, poll, requests>>

\* lines 63-64: the embeddings of the chunks come back (one row per chunk
\* in any order, or one row short), or the client raises
Embed ==
    /\ upload.pc = "embed"
    /\ \E answer \in {"rows", "short", "raises"} :
        IF answer = "raises"
        THEN /\ result' = Raise("APIError", "embeddings.create")
             /\ upload' = [upload EXCEPT !.pc = "raised"]
        ELSE LET n == IF answer = "short" THEN Len(upload.chunks) - 1 ELSE Len(upload.chunks)
                 rows == {[index |-> k - 1, embedding |-> <<upload.chunks[k]>>] : k \in 1..n}
                 vectors == BuildVectors(upload.chunks, SortedRows(rows), "knowledge_base")
             IN  IF Raised(vectors)
                 THEN /\ result' = vectors
                      /\ upload' = [upload EXCEPT !.pc = "raised"]
                 ELSE /\ upload' = [upload EXCEPT
                                       !.pc = IF call.replace_existing THEN "delete" ELSE "upsert",
                                       !.vectors = vectors.ret]
                      /\ UNCHANGED result
    /\ UNCHANGED <<data, call, scan, history, environ, files, memory, poll, requests>>

\* lines 66-67: _delete_all_vectors posts its request; the index answers or
\* the request fails
DeleteAllVectors ==
    /\ upload.pc = "delete"
    /\ requests' = Append(requests, DeleteRequest(upload.host, "sales", upload.pinecone_key))
    /\ \E ok \in BOOLEAN :
        IF ok
        THEN /\ upload' = [upload EXCEPT !.pc = "upsert"]
             /\ UNCHANGED result
        ELSE /\ upload' = [upload EXCEPT !.pc = "raised"]
             /\ result' = Raise("RuntimeError", "Pinecone request failed")
    /\ UNCHANGED <<data, call, scan, history, environ, files, memory, poll>>

\* one pass of the loop of _upsert_vectors (lines 185-196) and, after the
\* last, the return of lines 76-82; the index answers with an upsertedCount
\* of its own (here 1) or without one, and then len(batch) is counted
UpsertVectors ==
    /\ upload.pc = "upsert"
    /\ LET batch == Slice(upload.vectors, upload.offset,
                          IF upload.offset + call.batch_size > Len(upload.vectors)
                          THEN Len(upload.vectors)
                          ELSE upload.offset + call.batch_size)
       IN
       /\ requests' = Append(requests,
                             UpsertRequest(upload.host, "sales", upload.pinecone_key, batch))
       /\ \E answer \in {"count", "no count", "fails"} :
           IF answer = "fails"
           THEN /\ upload' = [upload EXCEPT !.pc = "raised"]
                /\ result' = Raise("RuntimeError", "Pinecone request failed")
           ELSE LET total == upload.total + (IF answer = "count" THEN 1 ELSE Len(batch))
                    offset == upload.offset + call.batch_size
                IN  IF offset < Len(upload.vectors)
                    THEN /\ upload' = [upload EXCEPT !.offset = offset, !.total = total]
                         /\ UNCHANGED result
                    ELSE /\ upload' = [upload EXCEPT !.pc = "returned", !.offset = offset,
                                                     !.total = total]
                         /\ result' = Return([namespace |-> "sales",
                                              embedding_model |-> upload.model,
                                              chunk_count |-> Len(upload.chunks),
                                              deleted_existing |-> call.replace_existing,
                                              upserted_count |-> total])
    /\ UNCHANGED <<data, call, scan, history, environ, files, memory, poll>>

\* chunked_data of at most MaxParts parts, batch_size of at most MaxBatchSize
MaxParts == 3

MaxBatchSize == 3

Parts == {<<SPACE>>, <<"a">>, <<"b", SPACE>>}

UploadEnvirons ==
    {NoEnviron, [name \in {PINECONE_API_KEY, OPENAI_API_KEY} |-> <<"e", SPACE>>]}

InitUpload ==
    /\ data = PyNone
    /\ call = NoCall
    /\ result = Return(<<>>)
    /\ scan = NoScan
    /\ history = <<>>
    /\ environ \in UploadEnvirons
    /\ files = NoFiles
    /\ memory = NoMemory
    /\ poll = NoPoll
    /\ requests = <<>>
    /\ upload = NoUpload

NextUpload ==
    \/ /\ upload.pc = "idle"
       /\ \E parts \in ListsUpTo(Parts, MaxParts) \ {<<>>},
             index_host \in {<<SPACE>>, <<"h", "/">>},
             embedding_size \in {small, <<SPACE, "L", "a", "r", "g", "e">>, <<"m">>},
             replace_existing \in BOOLEAN,
             chunk_separator \in {DEFAULT_CHUNK_SEPARATOR, <<SPACE>>},
             pinecone_api_key \in {<<>>, <<SPACE>>, <<"p">>},
             openai_api_key_value \in {<<>>, <<"o">>},
             batch_size \in 0..MaxBatchSize :
              UploadCall(parts, index_host, embedding_size, replace_existing, chunk_separator,
                         pinecone_api_key, openai_api_key_value, batch_size)
    \/ Embed
    \/ DeleteAllVectors
    \/ UpsertVectors

SpecUpload == InitUpload /\ [][NextUpload]_vars

\* the positions in requests of the delete-all requests and of the upserts
Deletes == {n \in 1..Len(requests) : requests[n].payload.deleteAll}

Upserts == {n \in 1..Len(requests) : ~requests[n].payload.deleteAll}

\* the vectors of the upsert requests from the n-th request on, in order
RECURSIVE Upserted(_)
Upserted(n) ==
    IF n > Len(requests) THEN <<>>
    ELSE requests[n].payload.vectors \o Upserted(n + 1)

\* the texts of the chunks of the call: its parts without the blank ones,
\* stripped, in order
RECURSIVE ChunkTexts(_)
ChunkTexts(parts) ==
    IF parts = <<>> THEN <<>>
    ELSE LET text == Strip(Head(parts)) IN
         (IF text = <<>> THEN <<>> ELSE <<text>>) \o ChunkTexts(Tail(parts))

\* C30: a delete-all request is sent only with replace_existing, only after
\* the validations and the embedding call have succeeded (while they run,
\* and when one of them fails, no request has been sent), once, and before
\* every upsert; the upserts carry the vectors in chunk order, in
\* consecutive batches of at most batch_size vectors that are full except
\* the last, and when the upload returns every vector was sent exactly once.
C30_DeleteBeforeUpsertInOrder ==
    call.op = "upload_chunked_data_to_pinecone" =>
        /\ Deletes # {} => call.replace_existing /\ Deletes = {1}
        /\ (call.replace_existing /\ Upserts # {}) => Deletes = {1}
        /\ upload.pc \in {"embed", "delete"} => requests = <<>>
        /\ (upload.pc = "raised" /\ result.msg # "Pinecone request failed") => requests = <<>>
        /\ \A n \in Upserts :
               /\ Len(requests[n].payload.vectors) \in 1..call.batch_size
               /\ n < Len(requests) => Len(requests[n].payload.vectors) = call.batch_size
        /\ LET sent == Upserted(1)
               texts == ChunkTexts(call.parts)
           IN  /\ Len(sent) <= Len(texts)
               /\ \A k \in 1..Len(sent) :
                      /\ sent[k].metadata.text = texts[k]
                      /\ sent[k].metadata.chunk_index = k - 1
                      /\ sent[k].id.index = k - 1
               /\ upload.pc = "returned" => Len(sent) = Len(texts)

\* three chunks with batch_size 2 and replace_existing: the delete-all
\* request, then an upsert of two vectors and an upsert of one
C30_Witness ==
    /\ upload.pc = "returned"
    /\ call.replace_existing
    /\ call.batch_size = 2
    /\ Len(requests) = 3
    /\ requests[1].payload.deleteAll
    /\ Len(requests[2].payload.vectors) = 2
    /\ Len(requests[3].payload.vectors) = 1
    /\ result.ret.chunk_count = 3

\* the embedding call fails with replace_existing: nothing was deleted
C30_WitnessEmbeddingFails ==
    /\ upload.pc = "raised"
    /\ call.replace_existing
    /\ result.exc = "APIError"
    /\ requests = <<>>

=============================================================================
